---- MODULE Spec2Model ----
(***************************************************************************)
(* Report resolution and index synchronisation of the DailyNews site.      *)
(*                                                                         *)
(* Strings are modelled as JavaScript holds them: sequences of UTF-16 code *)
(* units (naturals below 65536).  Buffers are sequences of bytes.          *)
(***************************************************************************)
EXTENDS Integers, Sequences, FiniteSets, TLC

VARIABLES
    cName,      \* codec: the file name handed to toSlug
    cSlug,      \* codec: the identifier handed to fromSlug
    cBack,      \* codec: what fromSlug returned
    cPc,        \* codec: "in" | "encoded" | "decoded", or what became of an identifier
    procEnv,    \* process.env
    envPy,      \* the assignments of env.py (all empty when there is no file)
    dirs,       \* the two local output directories
    idx,        \* the index document served for each channel
    call,       \* the last call of the resolver that returned, with what it saw
    objects,    \* the names of the report objects in the bucket
    del,        \* the DELETE request that runs, with what it has done so far
    parked,     \* a second DELETE request, waiting at one of its awaits
    sreq        \* the last call of signedRequest on its own, with its outcome

codecVars == <<cName, cSlug, cBack, cPc>>

worldVars == <<procEnv, envPy, dirs, idx>>

deleteVars == <<objects, del, parked>>

vars ==
    <<cName, cSlug, cBack, cPc, procEnv, envPy, dirs, idx, call, objects, del, parked, sreq>>

----------------------------------------------------------------------------
(* Bounds of the model *)

MaxNameLen == 3

MaxIndexItems == 2

MaxDirFiles == 2

----------------------------------------------------------------------------
(* Generic helpers on sequences of code units *)

RECURSIVE SeqsUpTo(_, _)
SeqsUpTo(S, n) ==
    IF n = 0 THEN {<<>>}
    ELSE LET shorter == SeqsUpTo(S, n - 1)
         IN  shorter \cup {Append(s, c) : s \in {t \in shorter : Len(t) = n - 1}, c \in S}

Drop(s, k) == SubSeq(s, k + 1, Len(s))

Take(s, k) == SubSeq(s, 1, k)

\* String.prototype.endsWith
EndsWith(s, suffix) ==
    /\ Len(suffix) <= Len(s)
    /\ SubSeq(s, Len(s) - Len(suffix) + 1, Len(s)) = suffix

\* String.prototype.startsWith
StartsWith(s, prefix) ==
    /\ Len(prefix) <= Len(s)
    /\ SubSeq(s, 1, Len(prefix)) = prefix

\* String.prototype.includes
Includes(s, part) ==
    \E i \in 1..(Len(s) - Len(part) + 1) : SubSeq(s, i, i + Len(part) - 1) = part

\* the least member of a non-empty set of numbers
Least(S) == CHOOSE i \in S : \A j \in S : i <= j

\* the greatest member of a non-empty set of numbers
Greatest(S) == CHOOSE i \in S : \A j \in S : i >= j

\* the member of a one-member set; {e(x) : x \in {v}} computes v once for
\* every use e makes of it
TheOne(S) == CHOOSE x \in S : TRUE

\* the concatenation of pieces[lo..hi]
RECURSIVE FlattenRange(_, _, _)
FlattenRange(pieces, lo, hi) ==
    IF lo > hi THEN <<>>
    ELSE IF lo = hi THEN pieces[lo]
    ELSE LET mid == (lo + hi) \div 2
         IN  FlattenRange(pieces, lo, mid) \o FlattenRange(pieces, mid + 1, hi)

Flatten(pieces) == FlattenRange(pieces, 1, Len(pieces))

----------------------------------------------------------------------------
(* Identifier codec: Buffer.from(.., "utf8") / toString("base64url") and   *)
(* back, src/lib/reports.ts:75-85                                          *)

IsHighSurrogate(c) == c >= 55296 /\ c <= 56319      \* D800..DBFF

IsLowSurrogate(c) == c >= 56320 /\ c <= 57343       \* DC00..DFFF

\* The UTF-8 bytes of one code point
Utf8OfCodePoint(cp) ==
    IF cp < 128 THEN <<cp>>
    ELSE IF cp < 2048 THEN <<192 + (cp \div 64), 128 + (cp % 64)>>
    ELSE IF cp < 65536
         THEN <<224 + (cp \div 4096), 128 + ((cp \div 64) % 64), 128 + (cp % 64)>>
    ELSE <<240 + (cp \div 262144), 128 + ((cp \div 4096) % 64),
           128 + ((cp \div 64) % 64), 128 + (cp % 64)>>

\* Buffer.from(str, "utf8"): a surrogate pair is one code point, a lone
\* surrogate is written as U+FFFD (EF BF BD)
Utf8Encode(s) ==
    LET piece(i) ==
            IF IsHighSurrogate(s[i]) /\ i < Len(s) /\ IsLowSurrogate(s[i + 1])
            THEN Utf8OfCodePoint(65536 + (s[i] - 55296) * 1024 + (s[i + 1] - 56320))
            ELSE IF IsLowSurrogate(s[i]) /\ i > 1 /\ IsHighSurrogate(s[i - 1]) THEN <<>>
            ELSE IF IsHighSurrogate(s[i]) \/ IsLowSurrogate(s[i]) THEN <<239, 191, 189>>
            ELSE Utf8OfCodePoint(s[i])
    IN  Flatten([i \in 1..Len(s) |-> piece(i)])

IsCont(b) == b >= 128 /\ b <= 191

\* The code units of one decoded code point
UnitsOfCodePoint(cp) ==
    IF cp < 65536 THEN <<cp>>
    ELSE <<55296 + ((cp - 65536) \div 1024), 56320 + ((cp - 65536) % 1024)>>

\* The range the second byte of a multi-byte sequence must lie in
SecondLow(b1) == IF b1 = 224 THEN 160 ELSE IF b1 = 240 THEN 144 ELSE 128

SecondHigh(b1) == IF b1 = 237 THEN 159 ELSE IF b1 = 244 THEN 143 ELSE 191

\* The number of bytes of the sequence b1 leads; 0 when b1 leads none
SequenceLength(b1) ==
    IF b1 < 128 THEN 1
    ELSE IF b1 >= 194 /\ b1 <= 223 THEN 2
    ELSE IF b1 >= 224 /\ b1 <= 239 THEN 3
    ELSE IF b1 >= 240 /\ b1 <= 244 THEN 4
    ELSE 0

\* buf.toString("utf8"): every maximal ill-formed part becomes one U+FFFD.
\* taken(j) is the number of bytes after b[j] that the sequence begun at j
\* takes; a byte inside the sequence of an earlier lead gives nothing
Utf8Decode(b) ==
    LET n == Len(b)
        taken(j) ==
            IF SequenceLength(b[j]) < 2 THEN 0
            ELSE IF ~(j + 1 <= n /\ b[j + 1] >= SecondLow(b[j]) /\ b[j + 1] <= SecondHigh(b[j]))
            THEN 0
            ELSE IF SequenceLength(b[j]) = 2 THEN 1
            ELSE IF ~(j + 2 <= n /\ IsCont(b[j + 2])) THEN 1
            ELSE IF SequenceLength(b[j]) = 3 THEN 2
            ELSE IF ~(j + 3 <= n /\ IsCont(b[j + 3])) THEN 2
            ELSE 3
        inside(i) == \E j \in (IF i > 3 THEN i - 3 ELSE 1)..(i - 1) :
                         ~IsCont(b[j]) /\ i - j <= taken(j)
        codePoint(i) ==
            IF SequenceLength(b[i]) = 2 THEN (b[i] - 192) * 64 + (b[i + 1] - 128)
            ELSE IF SequenceLength(b[i]) = 3
            THEN (b[i] - 224) * 4096 + (b[i + 1] - 128) * 64 + (b[i + 2] - 128)
            ELSE (b[i] - 240) * 262144 + (b[i + 1] - 128) * 4096
                     + (b[i + 2] - 128) * 64 + (b[i + 3] - 128)
        piece(i) ==
            IF inside(i) THEN <<>>
            ELSE IF b[i] < 128 THEN <<b[i]>>
            ELSE IF SequenceLength(b[i]) >= 2 /\ taken(i) = SequenceLength(b[i]) - 1
            THEN UnitsOfCodePoint(codePoint(i))
            ELSE <<65533>>
    IN  Flatten([i \in 1..n |-> piece(i)])

\* The character of a 6-bit value in the URL-safe alphabet (A-Z a-z 0-9 - _)
Base64UrlChar(v) ==
    IF v < 26 THEN 65 + v
    ELSE IF v < 52 THEN 97 + (v - 26)
    ELSE IF v < 62 THEN 48 + (v - 52)
    ELSE IF v = 62 THEN 45
    ELSE 95

\* buf.toString("base64url"): three bytes make four characters, no padding
Base64UrlEncode(b) ==
    LET group(g) ==
            LET k == 3 * (g - 1)
            IN  IF Len(b) - k = 1
                THEN <<Base64UrlChar(b[k + 1] \div 4), Base64UrlChar((b[k + 1] % 4) * 16)>>
                ELSE IF Len(b) - k = 2
                THEN <<Base64UrlChar(b[k + 1] \div 4),
                       Base64UrlChar((b[k + 1] % 4) * 16 + (b[k + 2] \div 16)),
                       Base64UrlChar((b[k + 2] % 16) * 4)>>
                ELSE <<Base64UrlChar(b[k + 1] \div 4),
                       Base64UrlChar((b[k + 1] % 4) * 16 + (b[k + 2] \div 16)),
                       Base64UrlChar((b[k + 2] % 16) * 4 + (b[k + 3] \div 64)),
                       Base64UrlChar(b[k + 3] % 64)>>
    IN  Flatten([g \in 1..((Len(b) + 2) \div 3) |-> group(g)])

\* The 6-bit value of a character; the decoder takes both alphabets
\* ('+' and '-' are 62, '/' and '_' are 63); 64 for any other character
Unbase64(c) ==
    IF c >= 65 /\ c <= 90 THEN c - 65
    ELSE IF c >= 97 /\ c <= 122 THEN c - 97 + 26
    ELSE IF c >= 48 /\ c <= 57 THEN c - 48 + 52
    ELSE IF c = 45 \/ c = 43 THEN 62
    ELSE IF c = 95 \/ c = 47 THEN 63
    ELSE 64

\* The characters the decoder reads: it stops at the first '=' and skips
\* every other character outside the alphabet
Base64Sextets(s) ==
    LET stops == {i \in 1..Len(s) : s[i] = 61}
        read == IF stops = {} THEN s ELSE Take(s, Least(stops) - 1)
        InAlphabet(c) == Unbase64(c) < 64
        kept == SelectSeq(read, InAlphabet)
    IN  [i \in 1..Len(kept) |-> Unbase64(kept[i])]

\* Four sextets make three bytes; a trailing group of two or three makes
\* one or two bytes, a single trailing sextet none
SextetsToBytes(v) ==
    LET group(g) ==
            LET k == 4 * (g - 1)
            IN  IF Len(v) - k < 2 THEN <<>>
                ELSE IF Len(v) - k = 2 THEN <<v[k + 1] * 4 + (v[k + 2] \div 16)>>
                ELSE IF Len(v) - k = 3
                THEN <<v[k + 1] * 4 + (v[k + 2] \div 16),
                       (v[k + 2] % 16) * 16 + (v[k + 3] \div 4)>>
                ELSE <<v[k + 1] * 4 + (v[k + 2] \div 16),
                       (v[k + 2] % 16) * 16 + (v[k + 3] \div 4),
                       (v[k + 3] % 4) * 64 + v[k + 4]>>
    IN  Flatten([g \in 1..((Len(v) + 3) \div 4) |-> group(g)])

\* Buffer.from(str, "base64url")
Base64UrlDecode(s) == SextetsToBytes(Base64Sextets(s))

\* a slip that would read the name as Latin-1 (one byte per code unit)
toSlugLatin1(fileName) == Base64UrlEncode([i \in 1..Len(fileName) |-> fileName[i] % 256])

toSlug(fileName) == Base64UrlEncode(Utf8Encode(fileName))

\* Buffer.from never throws on a string: the catch branch (null) is dead
fromSlug(slug) == Utf8Decode(Base64UrlDecode(slug))

----------------------------------------------------------------------------
(* path.basename (POSIX), as the callers use it *)

Slash == <<47>>

StripTrailingSlashes(p) ==
    LET kept == {i \in 1..Len(p) : p[i] # 47}
    IN  IF kept = {} THEN <<>> ELSE Take(p, Greatest(kept))

LastSegment(p) ==
    LET slashes == {i \in 1..Len(p) : p[i] = 47}
    IN  IF slashes = {} THEN p ELSE Drop(p, Greatest(slashes))

basename(p) == TheOne({LastSegment(stripped) : stripped \in {StripTrailingSlashes(p)}})

----------------------------------------------------------------------------
(* Program constants, src/lib/reports.ts:7-37 *)

\* "公众号格式"
WECHAT_MARKER == <<20844, 20247, 21495, 26684, 24335>>

\* "素材"
MATERIAL_MARKER == <<32032, 26448>>

\* ".md"
DotMd == <<46, 109, 100>>

\* " - "
Sep == <<32, 45, 32>>

\* "未知日期", the date of a name without a leading date
UnknownDate == <<26410, 30693, 26085, 26399>>

Channels == {"ai", "crypto"}

\* CHANNEL_CONFIG[channel].reportMarker:
\* "Karpathy 精选 RSS 日报" and "币圈每日资讯"
reportMarker(channel) ==
    IF channel = "ai"
    THEN <<75, 97, 114, 112, 97, 116, 104, 121, 32, 31934, 36873, 32, 82, 83, 83, 32, 26085, 25253>>
    ELSE <<24065, 22280, 27599, 26085, 36164, 35759>>

\* CHANNEL_CONFIG[channel].defaultPrefix:
\* "daily-news/reports" and "daily-news/crypto-reports"
defaultPrefix(channel) ==
    IF channel = "ai"
    THEN <<100, 97, 105, 108, 121, 45, 110, 101, 119, 115, 47, 114, 101, 112, 111, 114, 116, 115>>
    ELSE <<100, 97, 105, 108, 121, 45, 110, 101, 119, 115, 47, 99, 114, 121, 112, 116, 111, 45,
           114, 101, 112, 111, 114, 116, 115>>

----------------------------------------------------------------------------
(* File names: dates, qualification, order *)

IsDigit(c) == c >= 48 /\ c <= 57

\* the characters \s matches and trim() strips
IsSpace(c) ==
    \/ c \in {9, 10, 11, 12, 13, 32, 160, 5760, 8232, 8233, 8239, 8287, 12288, 65279}
    \/ (c >= 8192 /\ c <= 8202)

RECURSIVE TrimStart(_)
TrimStart(s) == IF s # <<>> /\ IsSpace(Head(s)) THEN TrimStart(Tail(s)) ELSE s

RECURSIVE TrimEnd(_)
TrimEnd(s) == IF s # <<>> /\ IsSpace(s[Len(s)]) THEN TrimEnd(Take(s, Len(s) - 1)) ELSE s

\* String.prototype.trim
Trim(s) == TrimEnd(TrimStart(s))

\* /^(\d{4}-\d{2}-\d{2})\s*-/ matches at the start of the name
HasLeadingDate(fileName) ==
    /\ Len(fileName) >= 11
    /\ \A i \in {1, 2, 3, 4, 6, 7, 9, 10} : IsDigit(fileName[i])
    /\ fileName[5] = 45
    /\ fileName[8] = 45
    /\ TrimStart(Drop(fileName, 10)) # <<>>
    /\ Head(TrimStart(Drop(fileName, 10))) = 45

safeDateFromName(fileName) ==
    IF HasLeadingDate(fileName) THEN Take(fileName, 10) ELSE UnknownDate

isReportLikeMarkdown(fileName) ==
    /\ EndsWith(fileName, DotMd)
    /\ ~Includes(fileName, WECHAT_MARKER)
    /\ ~Includes(fileName, MATERIAL_MARKER)

matchChannelFileName(fileName, channel) == Includes(fileName, reportMarker(channel))

\* String.prototype.localeCompare under the root collation (the default of
\* an English-locale runtime): the first level orders white space, then
\* punctuation, then digits, then Latin letters without regard to case, then
\* ideographs by code point; the last level puts lower case before upper case
CollationPrimary(c) ==
    IF IsSpace(c) THEN 1
    ELSE IF c = 95 THEN 2                           \* _
    ELSE IF c = 45 THEN 3                           \* -
    ELSE IF c = 46 THEN 4                           \* .
    ELSE IF c = 47 THEN 5                           \* /
    ELSE IF IsDigit(c) THEN 10 + (c - 48)
    ELSE IF c >= 97 /\ c <= 122 THEN 100 + (c - 97)
    ELSE IF c >= 65 /\ c <= 90 THEN 100 + (c - 65)
    ELSE 1000 + c

CollationTertiary(c) == IF c >= 65 /\ c <= 90 THEN 1 ELSE 0

\* lexicographic order of two sequences of numbers: -1, 0 or 1
LexCompare(a, b) ==
    LET shorter == IF Len(a) < Len(b) THEN Len(a) ELSE Len(b)
        differ == {i \in 1..shorter : a[i] # b[i]}
    IN  IF differ = {}
        THEN (IF Len(a) < Len(b) THEN -1 ELSE IF Len(a) > Len(b) THEN 1 ELSE 0)
        ELSE IF a[Least(differ)] < b[Least(differ)] THEN -1 ELSE 1

localeCompare(a, b) ==
    LET pa == [i \in 1..Len(a) |-> CollationPrimary(a[i])]
        pb == [i \in 1..Len(b) |-> CollationPrimary(b[i])]
        first == LexCompare(pa, pb)
    IN  IF first # 0 THEN first
        ELSE LexCompare([i \in 1..Len(a) |-> CollationTertiary(a[i])],
                        [i \in 1..Len(b) |-> CollationTertiary(b[i])])

\* a and b are records with a fileName; negative when a goes first
compareByDateDesc(a, b) ==
    LET da == safeDateFromName(a.fileName)
        db == safeDateFromName(b.fileName)
    IN  IF da # db THEN localeCompare(db, da)
        ELSE localeCompare(b.fileName, a.fileName)

\* Array.prototype.sort(compareByDateDesc): a stable sort
RECURSIVE InsertByDateDesc(_, _)
InsertByDateDesc(x, sorted) ==
    IF sorted = <<>> THEN <<x>>
    ELSE IF compareByDateDesc(sorted[Len(sorted)], x) <= 0 THEN Append(sorted, x)
    ELSE Append(InsertByDateDesc(x, Take(sorted, Len(sorted) - 1)), sorted[Len(sorted)])

RECURSIVE SortByDateDesc(_)
SortByDateDesc(items) ==
    IF items = <<>> THEN <<>>
    ELSE InsertByDateDesc(items[Len(items)], SortByDateDesc(Take(items, Len(items) - 1)))

----------------------------------------------------------------------------
(* URLs.  A URL is held as new URL() parses it: a scheme ("" when the text *)
(* has none, as a relative path or a bare host), a host and the path       *)
(* segments; the cache-busting query of withNoCacheParam names no other    *)
(* resource and is left out.  NoUrl is the empty string.                   *)

NoUrl == [scheme |-> "", host |-> <<>>, path |-> <<>>]

\* new URL(url) succeeds and the protocol is http: or https:
isValidAbsoluteHttpUrl(url) == url.scheme \in {"http", "https"} /\ url.host # <<>>

\* str.split("/").filter(Boolean): the non-empty segments of an object key
SplitSegments(key) ==
    LET starts == {i \in 1..Len(key) : key[i] # 47 /\ (i = 1 \/ key[i - 1] = 47)}
        start(k) == CHOOSE i \in starts : Cardinality({j \in starts : j < i}) = k - 1
        end(i) == Least({j \in i..Len(key) : j = Len(key) \/ key[j + 1] = 47})
    IN  [k \in 1..Cardinality(starts) |-> SubSeq(key, start(k), end(start(k)))]

\* each segment is percent-encoded, which names the same segment
encodeObjectKey(objectKey) == SplitSegments(objectKey)

\* base without trailing slashes + "/" + the encoded key
joinUrl(base, suffix) == [base EXCEPT !.path = @ \o encodeObjectKey(suffix)]

RECURSIVE StripLeadingSlashes(_)
StripLeadingSlashes(p) == IF p # <<>> /\ Head(p) = 47 THEN StripLeadingSlashes(Tail(p)) ELSE p

\* "http://" and "https://"
HttpPrefix == <<104, 116, 116, 112, 58, 47, 47>>

HttpsPrefix == <<104, 116, 116, 112, 115, 58, 47, 47>>

normalizeEndpoint(endpoint) ==
    LET noScheme == IF StartsWith(endpoint, HttpsPrefix) THEN Drop(endpoint, Len(HttpsPrefix))
                    ELSE IF StartsWith(endpoint, HttpPrefix) THEN Drop(endpoint, Len(HttpPrefix))
                    ELSE endpoint
    IN  Trim(StripTrailingSlashes(noScheme))

----------------------------------------------------------------------------
(* Configuration: the process environment and env.py *)

\* the variables of process.env the resolver reads; URL-valued ones hold a
\* URL, the others a string
EnvKeys ==
    {"ALIYUN_OSS_INDEX_URL", "OSS_INDEX_URL", "ALIYUN_OSS_CRYPTO_INDEX_URL", "OSS_CRYPTO_INDEX_URL",
     "ALIYUN_OSS_PUBLIC_BASE_URL", "OSS_PUBLIC_BASE_URL",
     "ALIYUN_OSS_BUCKET_NAME", "OSS_BUCKET_NAME", "ALIYUN_OSS_ENDPOINT", "OSS_ENDPOINT",
     "ALIYUN_OSS_PREFIX", "OSS_PREFIX", "ALIYUN_OSS_CRYPTO_PREFIX", "OSS_CRYPTO_PREFIX",
     "ALIYUN_OSS_ACCESS_KEY_ID", "OSS_ACCESS_KEY_ID",
     "ALIYUN_OSS_ACCESS_KEY_SECRET", "OSS_ACCESS_KEY_SECRET"}

UrlKeys ==
    {"ALIYUN_OSS_INDEX_URL", "OSS_INDEX_URL", "ALIYUN_OSS_CRYPTO_INDEX_URL", "OSS_CRYPTO_INDEX_URL",
     "ALIYUN_OSS_PUBLIC_BASE_URL", "OSS_PUBLIC_BASE_URL"}

prefixEnvKeys(channel) ==
    IF channel = "ai" THEN <<"ALIYUN_OSS_PREFIX", "OSS_PREFIX">>
    ELSE <<"ALIYUN_OSS_CRYPTO_PREFIX", "OSS_CRYPTO_PREFIX">>

indexUrlEnvKeys(channel) ==
    IF channel = "ai" THEN <<"ALIYUN_OSS_INDEX_URL", "OSS_INDEX_URL">>
    ELSE <<"ALIYUN_OSS_CRYPTO_INDEX_URL", "OSS_CRYPTO_INDEX_URL">>

envPyPrefixKeys(channel) == IF channel = "ai" THEN <<"prefix">> ELSE <<"crypto_prefix">>

\* the first key with a non-blank string value, trimmed; "" if none
RECURSIVE FirstString(_, _)
FirstString(table, keys) ==
    IF keys = <<>> THEN <<>>
    ELSE IF Trim(table[Head(keys)]) # <<>> THEN Trim(table[Head(keys)])
    ELSE FirstString(table, Tail(keys))

\* the same for URL-valued keys
RECURSIVE FirstUrl(_, _)
FirstUrl(table, keys) ==
    IF keys = <<>> THEN NoUrl
    ELSE IF table[Head(keys)] # NoUrl THEN table[Head(keys)]
    ELSE FirstUrl(table, Tail(keys))

\* "index.json"
IndexJson == <<105, 110, 100, 101, 120, 46, 106, 115, 111, 110>>

NoConfig == [present |-> FALSE]

\* the index URL: the environment's, else under the public base, else under
\* the bucket host
indexUrlOf(indexUrlFromEnv, publicBaseUrl, bucketBaseUrl, indexObject) ==
    IF indexUrlFromEnv # NoUrl THEN indexUrlFromEnv
    ELSE IF publicBaseUrl # NoUrl THEN joinUrl(publicBaseUrl, indexObject)
    ELSE IF bucketBaseUrl # NoUrl THEN joinUrl(bucketBaseUrl, indexObject)
    ELSE NoUrl

getOssRuntimeConfig(channel) ==
    LET prefix0 == FirstString(procEnv, prefixEnvKeys(channel))
        prefix1 == IF prefix0 # <<>> THEN prefix0 ELSE FirstString(envPy, envPyPrefixKeys(channel))
        prefix == IF prefix1 # <<>> THEN prefix1 ELSE defaultPrefix(channel)
        pub0 == FirstUrl(procEnv, <<"ALIYUN_OSS_PUBLIC_BASE_URL", "OSS_PUBLIC_BASE_URL">>)
        publicBaseUrl == IF pub0 # NoUrl THEN pub0 ELSE envPy.public_base_url
        bucket0 == IF procEnv.ALIYUN_OSS_BUCKET_NAME # <<>> THEN procEnv.ALIYUN_OSS_BUCKET_NAME
                   ELSE procEnv.OSS_BUCKET_NAME
        bucket == IF bucket0 # <<>> THEN bucket0 ELSE envPy.bucket_name
        endpoint0 == IF procEnv.ALIYUN_OSS_ENDPOINT # <<>> THEN procEnv.ALIYUN_OSS_ENDPOINT
                     ELSE procEnv.OSS_ENDPOINT
        endpointRaw == IF endpoint0 # <<>> THEN endpoint0 ELSE envPy.endpoint
        endpoint == normalizeEndpoint(endpointRaw)
        bucketBaseUrl == IF bucket # <<>> /\ endpoint # <<>>
                         THEN [scheme |-> "https", host |-> bucket \o <<46>> \o endpoint, path |-> <<>>]
                         ELSE NoUrl
        cleanPrefix == StripTrailingSlashes(StripLeadingSlashes(prefix))
        indexObject == cleanPrefix \o Slash \o IndexJson
        indexUrlFromEnv == FirstUrl(procEnv, indexUrlEnvKeys(channel))
        indexUrl == indexUrlOf(indexUrlFromEnv, publicBaseUrl, bucketBaseUrl, indexObject)
    IN  IF indexUrl = NoUrl \/ ~isValidAbsoluteHttpUrl(indexUrl) THEN NoConfig
        ELSE [present |-> TRUE, channel |-> channel, prefix |-> cleanPrefix, indexUrl |-> indexUrl,
              publicBaseUrl |-> publicBaseUrl, bucketBaseUrl |-> bucketBaseUrl]

----------------------------------------------------------------------------
(* The excerpt and the counts of a summary, src/lib/reports.ts:170-197 and *)
(* 292-295.  A number is held in tenths, so that 12 is 120 and 1.5 is 15.  *)

\* "暂无摘要。"
NoExcerpt == <<26242, 26080, 25688, 35201, 12290>>

\* "条 RSS 更新"
ItemMarker == <<26465, 32, 82, 83, 83, 32, 26356, 26032>>

\* "个核心主题"
ThemeMarker == <<20010, 26680, 24515, 20027, 39064>>

\* String.prototype.slice(0, n)
SliceTo(s, n) == SubSeq(s, 1, IF Len(s) < n THEN Len(s) ELSE n)

\* text.split("\n")
SplitLines(text) ==
    LET LineFrom(start, breaks) ==
            SubSeq(text, start,
                   IF \E b \in breaks : b >= start
                   THEN Least({b \in breaks : b >= start}) - 1 ELSE Len(text))
        Lines(breaks) ==
            [k \in 1..(Cardinality(breaks) + 1) |->
                LineFrom(IF k = 1 THEN 1
                         ELSE 1 + TheOne({b \in breaks :
                                             Cardinality({c \in breaks : c < b}) = k - 2}),
                         breaks)]
    IN  TheOne({Lines(breaks) : breaks \in {{i \in 1..Len(text) : text[i] = 10}}})

\* the lines buildExcerpt keeps: trimmed, not empty, and not starting with
\* "[^", "---", "#" or ">"
ExcerptLines(text) ==
    LET Kept(line) == /\ line # <<>>
                      /\ ~StartsWith(line, <<91, 94>>)
                      /\ ~StartsWith(line, <<45, 45, 45>>)
                      /\ ~StartsWith(line, <<35>>)
                      /\ ~StartsWith(line, <<62>>)
        Trimmed(split) == [k \in 1..Len(split) |-> Trim(split[k])]
    IN  TheOne({SelectSeq(trimmed, Kept) :
                   trimmed \in {TheOne({Trimmed(split) : split \in {SplitLines(text)}})}})

buildExcerpt(text) ==
    LET IsNoMark(c) == c \notin {42, 95, 96}         \* replace(/[*_`]/g, "")
        Joined(lines) == IF Len(lines) = 1 THEN lines[1] ELSE lines[1] \o <<32>> \o lines[2]
    IN  TheOne({IF lines = <<>> THEN NoExcerpt
                ELSE SliceTo(SelectSeq(Joined(lines), IsNoMark), 160) :
                   lines \in {ExcerptLines(text)}})

\* a letter without its case, for the flag i of a regular expression
FoldCase(c) == IF c >= 97 /\ c <= 122 THEN c - 32 ELSE c

\* the position after the digits that start at i: \d+ takes them all
DigitsEnd(text, i) ==
    IF \E j \in i..Len(text) : ~IsDigit(text[j])
    THEN Least({j \in i..Len(text) : ~IsDigit(text[j])}) ELSE Len(text) + 1

\* the position after the white space that starts at i: \s* takes it all
SpacesEnd(text, i) ==
    IF \E j \in i..Len(text) : ~IsSpace(text[j])
    THEN Least({j \in i..Len(text) : ~IsSpace(text[j])}) ELSE Len(text) + 1

MarkerAt(text, k, marker) ==
    /\ k + Len(marker) - 1 <= Len(text)
    /\ \A m \in 1..Len(marker) : FoldCase(text[k + m - 1]) = FoldCase(marker[m])

\* Number.parseInt of a sequence of digits, in tenths
RECURSIVE ParseDigits(_)
ParseDigits(digits) ==
    IF digits = <<>> THEN 0
    ELSE 10 * ParseDigits(SubSeq(digits, 1, Len(digits) - 1)) + 10 * (digits[Len(digits)] - 48)

\* text.match(/\*\*(\d+)\*\*\s*marker/i) ?? text.match(/(\d+)\s*marker/i),
\* then parseInt of the group of the leftmost match, or 0 without a match
CountBefore(text, marker) ==
    LET Plain(i) == /\ IsDigit(text[i])
                    /\ MarkerAt(text, SpacesEnd(text, DigitsEnd(text, i)), marker)
        Bold(i) == /\ i + 2 <= Len(text)
                   /\ text[i] = 42 /\ text[i + 1] = 42
                   /\ IsDigit(text[i + 2])
                   /\ DigitsEnd(text, i + 2) + 1 <= Len(text)
                   /\ text[DigitsEnd(text, i + 2)] = 42 /\ text[DigitsEnd(text, i + 2) + 1] = 42
                   /\ MarkerAt(text, SpacesEnd(text, DigitsEnd(text, i + 2) + 2), marker)
        Group(first) == SubSeq(text, first, DigitsEnd(text, first) - 1)
    IN  TheOne({TheOne({IF bold # {} THEN ParseDigits(Group(Least(bold) + 2))
                        ELSE IF plain # {} THEN ParseDigits(Group(Least(plain)))
                        ELSE 0 :
                           plain \in {{i \in 1..Len(text) : Plain(i)}}}) :
                   bold \in {{i \in 1..Len(text) : Bold(i)}}})

extractItemCount(text) == CountBefore(text, ItemMarker)

\* fileName.replace(/\.md$/, "")
WithoutMd(fileName) ==
    IF EndsWith(fileName, DotMd) THEN SubSeq(fileName, 1, Len(fileName) - 3) ELSE fileName

\* content.split("\n")[0]?.trim() || fileName.replace(/\.md$/, "")
localTitle(content, fileName) ==
    TheOne({IF first # <<>> THEN first ELSE WithoutMd(fileName) :
               first \in {Trim(SplitLines(content)[1])}})

extractThemeCount(text) == CountBefore(text, ThemeMarker)

----------------------------------------------------------------------------
(* The remote index document and the listing built from it,                *)
(* src/lib/reports.ts:292-366                                              *)

\* a JSON value of an index entry: a string, or absent, or of another type;
\* n is the number, in tenths, or 10 for true
JStr(s) == [t |-> "string", s |-> s, n |-> 0]

JAbsent == [t |-> "absent", s |-> <<>>, n |-> 0]

JNum(tenths) == [t |-> "number", s |-> <<>>, n |-> tenths]

\* the number 1
JOther == JNum(10)

JTrue == [t |-> "boolean", s |-> <<>>, n |-> 10]

JNull == [t |-> "null", s |-> <<>>, n |-> 0]

\* Number(value) of a string: white space alone gives 0, digits after an
\* optional sign give their value, and a text that is no numeric literal
\* gives NaN; literals with a fraction or an exponent are not among the
\* strings of the index documents below
NumberOfString(str) ==
    LET Value(trimmed) ==
            IF trimmed = <<>> THEN [finite |-> TRUE, n |-> 0]
            ELSE IF \A i \in 1..Len(trimmed) : IsDigit(trimmed[i])
            THEN [finite |-> TRUE, n |-> ParseDigits(trimmed)]
            ELSE IF /\ Len(trimmed) >= 2 /\ trimmed[1] \in {43, 45}
                    /\ \A i \in 2..Len(trimmed) : IsDigit(trimmed[i])
            THEN [finite |-> TRUE,
                  n |-> (IF trimmed[1] = 45 THEN -1 ELSE 1) * ParseDigits(Tail(trimmed))]
            ELSE [finite |-> FALSE, n |-> 0]
    IN  TheOne({Value(trimmed) : trimmed \in {Trim(str)}})

\* Number(value), then 0 unless it is finite: undefined gives NaN
toNumberSafe(value) ==
    IF value.t = "number" THEN value.n
    ELSE IF value.t = "string" THEN NumberOfString(value.s).n
    ELSE IF value.t = "boolean" THEN value.n
    ELSE 0

\* typeof v === "string" ? v.trim() : ""
StringOrEmpty(v) == IF v.t = "string" THEN Trim(v.s) ELSE <<>>

resolveContentUrl(item, config, fileName) ==
    LET rawUrl == item.url
        objectName == StringOrEmpty(item.objectName)
        fallbackObject == config.prefix \o Slash \o fileName
    IN  IF rawUrl # NoUrl /\ isValidAbsoluteHttpUrl(rawUrl) THEN rawUrl
        ELSE IF objectName # <<>> /\ config.publicBaseUrl # NoUrl
        THEN joinUrl(config.publicBaseUrl, objectName)
        ELSE IF objectName # <<>> /\ config.bucketBaseUrl # NoUrl
        THEN joinUrl(config.bucketBaseUrl, objectName)
        ELSE IF config.publicBaseUrl # NoUrl THEN joinUrl(config.publicBaseUrl, fallbackObject)
        ELSE IF config.bucketBaseUrl # NoUrl THEN joinUrl(config.bucketBaseUrl, fallbackObject)
        ELSE NoUrl

\* the file name an index entry stands for: its fileName, else the basename
\* of its objectName; "" if it has neither
EntryFileName(entry) ==
    LET byName == StringOrEmpty(entry.fileName)
        fileNameRaw == IF byName # <<>> THEN byName
                       ELSE basename(StringOrEmpty(entry.objectName))
    IN  basename(fileNameRaw)

\* the loop body's test: an object whose file name is report-like
EntryKept(raw) ==
    /\ raw.isObject
    /\ EntryFileName(raw) # <<>>
    /\ isReportLikeMarkdown(EntryFileName(raw))

\* the summary pushed for a kept entry
OssMeta(entry, channel, config) ==
    LET dateRaw == StringOrEmpty(entry.date)
    IN  TheOne({[slug |-> toSlug(fileName),
                 channel |-> channel,
                 date |-> IF dateRaw # <<>> THEN dateRaw ELSE safeDateFromName(fileName),
                 fileName |-> fileName,
                 title |-> IF StringOrEmpty(entry.title) # <<>>
                           THEN StringOrEmpty(entry.title) ELSE WithoutMd(fileName),
                 excerpt |-> IF StringOrEmpty(entry.excerpt) # <<>>
                             THEN StringOrEmpty(entry.excerpt) ELSE NoExcerpt,
                 itemCount |-> toNumberSafe(entry.itemCount),
                 themeCount |-> toNumberSafe(entry.themeCount),
                 source |-> "oss",
                 contentUrl |-> resolveContentUrl(entry, config, fileName)] :
                     fileName \in {EntryFileName(entry)}})

RECURSIVE OssItems(_, _, _)
OssItems(rawItems, channel, config) ==
    IF rawItems = <<>> THEN <<>>
    ELSE (IF EntryKept(Head(rawItems)) THEN <<OssMeta(Head(rawItems), channel, config)>> ELSE <<>>)
             \o OssItems(Tail(rawItems), channel, config)

\* a slip that would parse the body whatever the status of the response
getAllOssReportsInternalAnyStatus(channel, config, response) ==
    IF ~config.present THEN <<>>
    ELSE IF response.status = "neterror" THEN <<>>
    ELSE IF ~response.body.json THEN <<>>
    ELSE LET rawItems == IF response.body.hasItems THEN response.body.items ELSE <<>>
         IN  SortByDateDesc(OssItems(rawItems, channel, config))

\* What the fetch of the index URL gives: response is
\*   [status |-> "neterror"]                  fetch rejects
\*   [status |-> "http", ok, body]            body is the index document:
\*   [json |-> FALSE]                         not JSON
\*   [json |-> TRUE, hasItems, items]         JSON, with or without an items array
\* Every failure is caught and gives the empty list.
getAllOssReportsInternal(channel, config, response) ==
    IF ~config.present THEN <<>>
    ELSE IF response.status = "neterror" THEN <<>>
    ELSE IF ~response.ok THEN <<>>
    ELSE IF ~response.body.json THEN <<>>
    ELSE LET rawItems == IF response.body.hasItems THEN response.body.items ELSE <<>>
         IN  SortByDateDesc(OssItems(rawItems, channel, config))

----------------------------------------------------------------------------
(* The local output directories and the listing built from them,           *)
(* src/lib/reports.ts:206-249 and 400-409                                  *)
(*                                                                         *)
(* A directory is [present, files]; files maps each name readdir returns   *)
(* to [kind, readable, text]: kind "file", "dir" or "link" (a symbolic     *)
(* link to a file, for which entry.isFile() is false and which readFile    *)
(* follows), readable FALSE when readFile fails on it (removed after the   *)
(* scan, or no permission).                                                *)

OutputDirs == <<1, 2>>      \* cwd/outputs, then tmpdir/daily-news/outputs

\* the names the scan maps to a path, with the directory that won
ScannedNames ==
    {n \in UNION {IF dirs[d].present THEN DOMAIN dirs[d].files ELSE {} : d \in {1, 2}} :
        \E d \in {1, 2} : dirs[d].present /\ n \in DOMAIN dirs[d].files
                             /\ dirs[d].files[n].kind = "file"}

filePathMap(n) ==
    IF dirs[1].present /\ n \in DOMAIN dirs[1].files /\ dirs[1].files[n].kind = "file" THEN 1 ELSE 2

\* Array.from(filePathMap.keys()): the names in the order readdir gave them
RECURSIVE KeysOf(_)
KeysOf(S) ==
    IF S = {} THEN <<>>
    ELSE LET n == CHOOSE m \in S : TRUE
         IN  <<[fileName |-> n]>> \o KeysOf(S \ {n})

reportFiles(channel) ==
    SortByDateDesc(KeysOf({n \in ScannedNames :
                             isReportLikeMarkdown(n) /\ matchChannelFileName(n, channel)}))

\* readFile and stat of the mapped path both succeed
LocalReadable(n) == dirs[filePathMap(n)].files[n].readable

buildLocalMeta(fileName, channel) ==
    TheOne({[slug |-> toSlug(fileName),
             channel |-> channel,
             date |-> safeDateFromName(fileName),
             fileName |-> fileName,
             title |-> localTitle(content, fileName),
             excerpt |-> buildExcerpt(content),
             itemCount |-> extractItemCount(content),
             themeCount |-> extractThemeCount(content),
             source |-> "local",
             contentUrl |-> NoUrl] :
                content \in {dirs[filePathMap(fileName)].files[fileName].text}})

\* [ok, items]: Promise.all rejects as soon as one file cannot be read
getAllLocalReportsInternal(channel) ==
    TheOne({IF \E i \in 1..Len(files) : ~LocalReadable(files[i].fileName)
            THEN [ok |-> FALSE, items |-> <<>>]
            ELSE [ok |-> TRUE,
                  items |-> [i \in 1..Len(files) |-> buildLocalMeta(files[i].fileName, channel)]] :
                files \in {reportFiles(channel)}})

\* [found, text]: the first directory in which readFile succeeds; readFile
\* fails on a directory and reads through a link
readLocalReportContent(fileName) ==
    LET CanRead(d) == /\ dirs[d].present
                      /\ fileName \in DOMAIN dirs[d].files
                      /\ dirs[d].files[fileName].kind # "dir"
                      /\ dirs[d].files[fileName].readable
    IN  IF CanRead(1) THEN [found |-> TRUE, text |-> dirs[1].files[fileName].text]
        ELSE IF CanRead(2) THEN [found |-> TRUE, text |-> dirs[2].files[fileName].text]
        ELSE [found |-> FALSE, text |-> <<>>]

----------------------------------------------------------------------------
(* The resolver, src/lib/reports.ts:368-462.  net is what the network      *)
(* gives during the call:                                                  *)
(*   net.index[c]    "200", "500" or "neterror" for the fetch of c's index *)
(*   net.content[c]  TRUE when the fetch of a content URL of c succeeds    *)

\* the body of a content object that is fetched successfully: "# R"
RemoteText == <<35, 32, 82>>

IndexResponse(channel, net) ==
    IF net.index[channel] = "neterror" THEN [status |-> "neterror"]
    ELSE [status |-> "http", ok |-> (net.index[channel] = "200"), body |-> idx[channel]]

toPublicMeta(item) ==
    [slug |-> item.slug, channel |-> item.channel, date |-> item.date, fileName |-> item.fileName,
     title |-> item.title, excerpt |-> item.excerpt, itemCount |-> item.itemCount,
     themeCount |-> item.themeCount]

PublicMetas(items) == [i \in 1..Len(items) |-> toPublicMeta(items[i])]

getChannelSearchOrder(preferredChannel) ==
    IF preferredChannel = "crypto" THEN <<"crypto", "ai">> ELSE <<"ai", "crypto">>

\* items.find((it) => it.fileName === fileName): [found, meta]
FindByFileName(items, fileName) ==
    IF \E i \in 1..Len(items) : items[i].fileName = fileName
    THEN [found |-> TRUE,
          meta |-> items[CHOOSE i \in 1..Len(items) :
                            /\ items[i].fileName = fileName
                            /\ \A j \in 1..(i - 1) : items[j].fileName # fileName]]
    ELSE [found |-> FALSE]

\* [ok, found, meta, local]: ok FALSE when the local scan rejects; local
\* tells whether the output directories were read
findReportMetaInChannel(fileName, channel, net) ==
    TheOne({
        IF ossConfig.present
        THEN TheOne({IF inOss.found
                     THEN [ok |-> TRUE, found |-> TRUE, meta |-> inOss.meta, local |-> FALSE]
                     ELSE [ok |-> TRUE, found |-> FALSE, local |-> FALSE] :
                        inOss \in {FindByFileName(
                                      getAllOssReportsInternal(channel, ossConfig,
                                                               IndexResponse(channel, net)),
                                      fileName)}})
        ELSE TheOne({IF ~local.ok THEN [ok |-> FALSE, found |-> FALSE, local |-> TRUE]
                     ELSE TheOne({IF inLocal.found
                                  THEN [ok |-> TRUE, found |-> TRUE, meta |-> inLocal.meta,
                                        local |-> TRUE]
                                  ELSE [ok |-> TRUE, found |-> FALSE, local |-> TRUE] :
                                     inLocal \in {FindByFileName(local.items, fileName)}}) :
                        local \in {getAllLocalReportsInternal(channel)}}) :
            ossConfig \in {getOssRuntimeConfig(channel)}})

NoDetail == [found |-> FALSE]

\* [found, meta, content]
toReportDetail(meta, net) ==
    IF meta.source = "oss"
    THEN IF meta.contentUrl = NoUrl \/ ~isValidAbsoluteHttpUrl(meta.contentUrl) THEN NoDetail
         ELSE IF ~net.content[meta.channel] THEN NoDetail
         ELSE [found |-> TRUE, meta |-> toPublicMeta(meta), content |-> RemoteText]
    ELSE LET content == readLocalReportContent(meta.fileName)
         IN  IF ~content.found \/ content.text = <<>> THEN NoDetail
             ELSE [found |-> TRUE, meta |-> toPublicMeta(meta), content |-> content.text]

\* a slip that would turn to the directories when the index gives nothing
getAllReportsElseLocal(channel, net) ==
    TheOne({
        IF ossConfig.present
           /\ getAllOssReportsInternal(channel, ossConfig, IndexResponse(channel, net)) # <<>>
        THEN [status |-> "ok",
              items |-> PublicMetas(getAllOssReportsInternal(channel, ossConfig,
                                                             IndexResponse(channel, net))),
              localReads |-> {}]
        ELSE TheOne({[status |-> IF local.ok THEN "ok" ELSE "throw",
                      items |-> PublicMetas(local.items),
                      localReads |-> {channel}] :
                        local \in {getAllLocalReportsInternal(channel)}}) :
            ossConfig \in {getOssRuntimeConfig(channel)}})

\* [status, items, localReads]
getAllReports(channel, net) ==
    TheOne({
        IF ossConfig.present
        THEN [status |-> "ok",
              items |-> PublicMetas(getAllOssReportsInternal(channel, ossConfig,
                                                             IndexResponse(channel, net))),
              localReads |-> {}]
        ELSE TheOne({[status |-> IF local.ok THEN "ok" ELSE "throw",
                      items |-> PublicMetas(local.items),
                      localReads |-> {channel}] :
                        local \in {getAllLocalReportsInternal(channel)}}) :
            ossConfig \in {getOssRuntimeConfig(channel)}})

\* the loop over the channels: [status, detail, localReads]
RECURSIVE SearchChannels(_, _, _)
SearchChannels(order, fileName, net) ==
    IF order = <<>> THEN [status |-> "ok", detail |-> NoDetail, localReads |-> {}]
    ELSE TheOne({
            LET reads == IF meta.local THEN {Head(order)} ELSE {}
                rest == SearchChannels(Tail(order), fileName, net)
            IN  IF ~meta.ok THEN [status |-> "throw", detail |-> NoDetail, localReads |-> reads]
                ELSE IF ~meta.found THEN [rest EXCEPT !.localReads = @ \cup reads]
                ELSE IF toReportDetail(meta.meta, net).found
                THEN [status |-> "ok", detail |-> toReportDetail(meta.meta, net),
                      localReads |-> reads]
                ELSE [rest EXCEPT !.localReads = @ \cup reads] :
                    meta \in {findReportMetaInChannel(fileName, Head(order), net)}})

\* the guard of getReportBySlug on the decoded identifier
SlugAccepted(slug) ==
    \E fileName \in {fromSlug(slug)} :
        fileName # <<>> /\ basename(fileName) = fileName /\ isReportLikeMarkdown(fileName)

getReportBySlug(slug, preferredChannel, net) ==
    IF ~SlugAccepted(slug) THEN [status |-> "ok", detail |-> NoDetail, localReads |-> {}]
    ELSE TheOne({SearchChannels(getChannelSearchOrder(preferredChannel), fileName, net) :
                    fileName \in {fromSlug(slug)}})

----------------------------------------------------------------------------
(* Deletion: the DELETE route over the bucket, src/unnamed/part_010 with   *)
(* src/unnamed/part_005, and the DELETE route over the script,             *)
(* src/app/api/reports/[slug]/route.ts                                     *)

\* decodeSlug of both routes: [valid, fileName]
decodeSlug(slug) ==
    TheOne({IF fileName = <<>> \/ basename(fileName) # fileName
            THEN [valid |-> FALSE, fileName |-> <<>>]
            ELSE [valid |-> TRUE, fileName |-> fileName] :
                fileName \in {Utf8Decode(Base64UrlDecode(slug))}})

\* a || b || c || d on strings: the first that is not empty
FirstTruthy(values) ==
    IF \E i \in 1..Len(values) : values[i] # <<>>
    THEN values[Least({i \in 1..Len(values) : values[i] # <<>>})]
    ELSE <<>>

\* "daily-news/reports", the default of the prefix
DefaultOssPrefix == defaultPrefix("ai")

loadOssConfig ==
    [accessKeyId |-> Trim(FirstTruthy(<<procEnv.ALIYUN_OSS_ACCESS_KEY_ID,
                                        procEnv.OSS_ACCESS_KEY_ID, envPy.access_key_id>>)),
     accessKeySecret |-> Trim(FirstTruthy(<<procEnv.ALIYUN_OSS_ACCESS_KEY_SECRET,
                                            procEnv.OSS_ACCESS_KEY_SECRET,
                                            envPy.access_key_secret>>)),
     bucketName |-> Trim(FirstTruthy(<<procEnv.ALIYUN_OSS_BUCKET_NAME, procEnv.OSS_BUCKET_NAME,
                                       envPy.bucket_name>>)),
     endpoint |-> normalizeEndpoint(FirstTruthy(<<procEnv.ALIYUN_OSS_ENDPOINT,
                                                  procEnv.OSS_ENDPOINT, envPy.endpoint>>)),
     prefix |-> Trim(FirstTruthy(<<procEnv.ALIYUN_OSS_PREFIX, procEnv.OSS_PREFIX, envPy.prefix,
                                   DefaultOssPrefix>>))]

\* a slip that would not ask for the secret
isOssConfiguredWithoutSecret(config) ==
    /\ config.accessKeyId # <<>>
    /\ config.bucketName # <<>>
    /\ normalizeEndpoint(config.endpoint) # <<>>

isOssConfigured(config) ==
    /\ config.accessKeyId # <<>>
    /\ config.accessKeySecret # <<>>
    /\ config.bucketName # <<>>
    /\ normalizeEndpoint(config.endpoint) # <<>>

normalizePrefix(prefix) == StripTrailingSlashes(StripLeadingSlashes(Trim(prefix)))

buildReportObjectName(prefix, fileName) ==
    IF normalizePrefix(prefix) # <<>> THEN normalizePrefix(prefix) \o Slash \o basename(fileName)
    ELSE basename(fileName)

buildIndexObjectName(prefix) ==
    IF normalizePrefix(prefix) # <<>> THEN normalizePrefix(prefix) \o Slash \o IndexJson
    ELSE IndexJson

canonicalObjectName(objectName) == Trim(StripLeadingSlashes(objectName))

\* "无错误详情"
NoErrorDetail == <<26080, 38169, 35823, 35814, 24773>>

\* what fetch gives: it rejects, or it resolves to a response
Rejects == [kind |-> "rejects", status |-> 0, body |-> <<>>]

Responds(status, body) == [kind |-> "response", status |-> status, body |-> body]

\* a slip that would take a redirection for a success
responseOkOrRedirect(status) == status >= 200 /\ status <= 399

\* response.ok
responseOk(status) == status >= 200 /\ status <= 299

\* the result of signedRequest.  sent tells whether fetch was called;
\* resource is the name in the string that is signed, key the segments of
\* the path of the URL that is requested.  outcome is "returns" with the
\* status of the response, or "throws" with the status and the detail of
\* the message (status 0 when there is no response).
signedRequest(config, method, objectName, allowNotFound, response) ==
    LET Result(normalizedObject) ==
            LET made == [outcome |-> "throws", sent |-> TRUE, method |-> method,
                         resource |-> Slash \o config.bucketName \o Slash \o normalizedObject,
                         key |-> encodeObjectKey(canonicalObjectName(normalizedObject)),
                         status |-> 0, detail |-> <<>>]
            IN  IF normalizedObject = <<>>
                THEN [made EXCEPT !.sent = FALSE, !.resource = <<>>, !.key = <<>>]
                ELSE IF response.kind = "rejects" THEN made
                ELSE IF response.status = 404 /\ allowNotFound
                THEN [made EXCEPT !.outcome = "returns", !.status = 404]
                ELSE IF ~responseOk(response.status)
                THEN [made EXCEPT !.status = response.status,
                                  !.detail = IF Trim(response.body) # <<>>
                                             THEN SliceTo(Trim(response.body), 500)
                                             ELSE NoErrorDetail]
                ELSE [made EXCEPT !.outcome = "returns", !.status = response.status]
    IN  TheOne({Result(normalizedObject) :
                   normalizedObject \in {canonicalObjectName(objectName)}})

\* the channel whose index document the object indexObjectName is
indexChannel(indexObjectName) ==
    IF indexObjectName = buildIndexObjectName(defaultPrefix("crypto")) THEN "crypto" ELSE "ai"

\* String(v || "")
StringOf(v) == IF v.t = "string" THEN v.s ELSE IF v.t = "absent" THEN <<>> ELSE <<49>>

\* what the signed GET of the index object gives: answer is "200", "404",
\* or "fail" (another status, or no answer); [ok, items]
loadIndexItems(config, indexObjectName, response) ==
    LET doc == idx[indexChannel(indexObjectName)]
        isEntry(item) == item.isObject
        Loaded(resp) ==
            IF resp.outcome = "throws" THEN [ok |-> FALSE, items |-> <<>>]
            ELSE IF resp.status = 404 THEN [ok |-> TRUE, items |-> <<>>]
            ELSE IF doc.json /\ doc.hasItems
            THEN [ok |-> TRUE, items |-> SelectSeq(doc.items, isEntry)]
            ELSE [ok |-> TRUE, items |-> <<>>]
    IN  TheOne({Loaded(resp) :
                   resp \in {signedRequest(config, "GET", indexObjectName, TRUE, response)}})

\* a slip that would look an entry up and leave it in the index
RECURSIVE SplitItemsKeepingAll(_, _, _, _)
SplitItemsKeepingAll(items, fileName, objectName, remaining) ==
    IF items = <<>> THEN [objectName |-> objectName, remaining |-> remaining]
    ELSE IF objectName = <<>> /\ Trim(StringOf(Head(items).fileName)) = fileName
    THEN SplitItemsKeepingAll(Tail(items), fileName, Trim(StringOf(Head(items).objectName)),
                              Append(remaining, Head(items)))
    ELSE SplitItemsKeepingAll(Tail(items), fileName, objectName, Append(remaining, Head(items)))

\* the loop of deleteFromOss over the items: [objectName, remaining]
RECURSIVE SplitItems(_, _, _, _)
SplitItems(items, fileName, objectName, remaining) ==
    IF items = <<>> THEN [objectName |-> objectName, remaining |-> remaining]
    ELSE IF objectName = <<>> /\ Trim(StringOf(Head(items).fileName)) = fileName
    THEN SplitItems(Tail(items), fileName, Trim(StringOf(Head(items).objectName)), remaining)
    ELSE SplitItems(Tail(items), fileName, objectName, Append(remaining, Head(items)))

\* a slip that would put the smaller name first
compareByFileNameAsc(a, b) == localeCompare(StringOf(a.fileName), StringOf(b.fileName))

\* negative when a goes first
compareByFileNameDesc(a, b) == localeCompare(StringOf(b.fileName), StringOf(a.fileName))

\* Array.prototype.sort(compareByFileNameDesc): a stable sort
RECURSIVE SortByFileNameDesc(_)
SortByFileNameDesc(items) ==
    IF items = <<>> THEN <<>>
    ELSE LET sorted == SortByFileNameDesc(Take(items, Len(items) - 1))
             x == items[Len(items)]
             after == {i \in 1..Len(sorted) : compareByFileNameDesc(sorted[i], x) > 0}
             k == IF after = {} THEN Len(sorted) ELSE Least(after) - 1
         IN  Take(sorted, k) \o <<x>> \o Drop(sorted, k)

\* path.extname of a basename
extname(name) ==
    LET dots == {i \in 1..Len(name) : name[i] = 46}
    IN  IF dots = {} \/ Greatest(dots) = 1 \/ name = <<46, 46>> THEN <<>>
        ELSE Drop(name, Greatest(dots) - 1)

\* the three names deleteLocalArtifacts removes in an output directory:
\* the report, its derivative and the directory of its materials
localTargets(fileName) ==
    LET Named(safeName, ext, stem) ==
            [report |-> safeName,
             wechat |-> stem \o Sep \o WECHAT_MARKER \o (IF ext # <<>> THEN ext ELSE DotMd),
             materials |-> stem \o MATERIAL_MARKER]
    IN  TheOne({TheOne({TheOne({Named(safeName, ext, stem) :
                                   stem \in {Take(safeName, Len(safeName) - Len(ext))}}) :
                           ext \in {extname(safeName)}}) :
                   safeName \in {basename(fileName)}})

\* an output directory after the three removals: rm without "recursive"
\* removes a file and fails on a directory, the failure is ignored
removeArtifacts(dir, fileName) ==
    IF ~dir.present THEN dir
    ELSE LET Gone(t) == {n \in DOMAIN dir.files :
                            \/ n \in {t.report, t.wechat} /\ dir.files[n].kind = "file"
                            \/ n = t.materials}
         IN  TheOne({[dir EXCEPT !.files = [n \in (DOMAIN dir.files) \ gone |-> dir.files[n]]] :
                        gone \in {Gone(localTargets(fileName))}})

\* outputDirs: both directories for the route over the bucket, the first
\* alone for the route over the script
deleteLocalArtifacts(fileName, outputDirs) ==
    [d \in 1..2 |-> IF d \in outputDirs THEN removeArtifacts(dirs[d], fileName) ELSE dirs[d]]

\* a slip that would write the index as it is now, less what this request
\* removed from what it read
nextItemsOfCurrent(remaining) ==
    LET Kept(item) == \E i \in 1..Len(remaining) : remaining[i] = item
    IN  SortByFileNameDesc(IF idx["ai"].json /\ idx["ai"].hasItems
                           THEN SelectSeq(idx["ai"].items, Kept) ELSE remaining)

\* const nextItems = remaining.sort(compareByFileNameDesc): the items of the
\* rewritten index
nextItems(remaining) == SortByFileNameDesc(remaining)

\* the document putJsonObject writes: { generated_at, count, prefix, items };
\* the time and the prefix are left out
indexPayload(items) ==
    [json |-> TRUE, hasItems |-> TRUE, items |-> items, count |-> Len(items)]

\* no request: the fields of a request, empty.  read holds the items that
\* loadIndexItems returned, requests the requests that were sent, failed the
\* request that threw
NoDelete ==
    [pc |-> "idle", route |-> "", slug |-> <<>>, fileName |-> <<>>, objectName |-> <<>>,
     read |-> <<>>, remaining |-> <<>>, requests |-> {}, failed |-> "", removed |-> {},
     status |-> 0]

----------------------------------------------------------------------------
(* The worlds the resolver is run in *)

\* "2024-01-02", "2024-01-03", "2024-01-04" and "2024-01-09"
D0102 == <<50, 48, 50, 52, 45, 48, 49, 45, 48, 50>>

D0103 == <<50, 48, 50, 52, 45, 48, 49, 45, 48, 51>>

D0104 == <<50, 48, 50, 52, 45, 48, 49, 45, 48, 52>>

D0109 == <<50, 48, 50, 52, 45, 48, 49, 45, 48, 57>>

\* "2024-01-03 - Karpathy 精选 RSS 日报.md" and the day before
NameAi03 == D0103 \o Sep \o reportMarker("ai") \o DotMd

NameAi02 == D0102 \o Sep \o reportMarker("ai") \o DotMd

\* "2024-01-03 - Karpathy 精选 RSS 日报 b.md": a second report of the 3rd
NameAiB03 == D0103 \o Sep \o reportMarker("ai") \o <<32, 98>> \o DotMd

\* "Karpathy 精选 RSS 日报.md": no leading date
NameAiUndated == reportMarker("ai") \o DotMd

\* "2024-01-03 - 币圈每日资讯.md"
NameCrypto03 == D0103 \o Sep \o reportMarker("crypto") \o DotMd

\* "2024-01-02 - Karpathy 精选 RSS 日报 币圈每日资讯.md": both markers
NameBoth02 == D0102 \o Sep \o reportMarker("ai") \o <<32>> \o reportMarker("crypto") \o DotMd

\* "2024-01-03 - Karpathy 精选 RSS 日报 - 公众号格式.md": a derivative
NameWechat03 == D0103 \o Sep \o reportMarker("ai") \o Sep \o WECHAT_MARKER \o DotMd

\* "2024-01-04 - notes.md": no channel marker
NameNotes04 == D0104 \o Sep \o <<110, 111, 116, 101, 115>> \o DotMd

\* ".." and "a/b.md"
NameDotDot == <<46, 46>>

NameNested == <<97, 47, 98>> \o DotMd

EmptyEnv == [k \in EnvKeys |-> IF k \in UrlKeys THEN NoUrl ELSE <<>>]

EmptyEnvPy ==
    [public_base_url |-> NoUrl, bucket_name |-> <<>>, endpoint |-> <<>>,
     prefix |-> <<>>, crypto_prefix |-> <<>>, access_key_id |-> <<>>, access_key_secret |-> <<>>]

\* https://i/ai.json, https://i/crypto.json, the relative path /idx.json
AbsIndexUrl(channel) ==
    [scheme |-> "https", host |-> <<105>>,
     path |-> <<(IF channel = "ai" THEN <<97, 105>> ELSE <<99>>) \o <<46, 106, 115, 111, 110>>>>]

RelIndexUrl == [scheme |-> "", host |-> <<>>, path |-> <<<<105, 100, 120, 46, 106, 115, 111, 110>>>>]

\* https://c, and the bare host c (no scheme: new URL() rejects it)
PublicBase == [scheme |-> "https", host |-> <<99>>, path |-> <<>>]

BareHostBase == [scheme |-> "", host |-> <<99>>, path |-> <<>>]

\* the bucket "b" and the endpoint "https://e/"
BucketName == <<98>>

EndpointRaw == HttpsPrefix \o <<101, 47>>

MkEnv(indexAi, indexAi2, indexCrypto, publicBase, bucket, endpoint) ==
    [EmptyEnv EXCEPT !["ALIYUN_OSS_INDEX_URL"] = indexAi,
                     !["OSS_INDEX_URL"] = indexAi2,
                     !["ALIYUN_OSS_CRYPTO_INDEX_URL"] = indexCrypto,
                     !["ALIYUN_OSS_PUBLIC_BASE_URL"] = publicBase,
                     !["ALIYUN_OSS_BUCKET_NAME"] = bucket,
                     !["OSS_ENDPOINT"] = endpoint]

AllEnvs ==
    {MkEnv(a, a2, c, p, b, e) :
        a \in {NoUrl, RelIndexUrl, AbsIndexUrl("ai")}, a2 \in {NoUrl, AbsIndexUrl("ai")},
        c \in {NoUrl, AbsIndexUrl("crypto")}, p \in {NoUrl, PublicBase, BareHostBase},
        b \in {<<>>, BucketName}, e \in {<<>>, EndpointRaw}}

AllEnvPys == {EmptyEnvPy, [EmptyEnvPy EXCEPT !.public_base_url = PublicBase]}

\* both channels configured: by index URLs alone, by the public base, by the bucket
EnvByIndexUrls == MkEnv(AbsIndexUrl("ai"), NoUrl, AbsIndexUrl("crypto"), NoUrl, <<>>, <<>>)

EnvByPublicBase == MkEnv(NoUrl, NoUrl, NoUrl, PublicBase, <<>>, <<>>)

EnvByBucket == MkEnv(NoUrl, NoUrl, NoUrl, NoUrl, BucketName, EndpointRaw)

\* no channel configured; "ai" alone configured; "crypto" alone configured
\* (a relative index URL for "ai" beside a public base)
EnvAiOnly == MkEnv(AbsIndexUrl("ai"), NoUrl, NoUrl, NoUrl, <<>>, <<>>)

EnvRelBesidePublic == MkEnv(RelIndexUrl, NoUrl, NoUrl, PublicBase, <<>>, <<>>)

\* index entries
Entry(fileName, objectName, date, url) ==
    [isObject |-> TRUE, fileName |-> fileName, objectName |-> objectName, date |-> date, url |-> url,
     title |-> JAbsent, excerpt |-> JAbsent, itemCount |-> JAbsent, themeCount |-> JAbsent]

\* an item of the index that is no object: a number, a string or null
NoObject == [Entry(JAbsent, JAbsent, JAbsent, NoUrl) EXCEPT !.isObject = FALSE]

ObjectNameOf(channel, fileName) == defaultPrefix(channel) \o Slash \o fileName

\* https://o/doc.md
AbsContentUrl == [scheme |-> "https", host |-> <<111>>, path |-> <<<<100, 111, 99>> \o DotMd>>]

EntryCatalogue ==
    {Entry(JStr(NameAi03), JStr(ObjectNameOf("ai", NameAi03)), JAbsent, NoUrl),
     Entry(JStr(NameAi02), JAbsent, JStr(D0109), AbsContentUrl),
     Entry(JAbsent, JStr(ObjectNameOf("ai", NameAiB03)), JAbsent, NoUrl),
     Entry(JStr(NameNotes04), JAbsent, JAbsent, NoUrl),
     Entry(JStr(NameWechat03), JAbsent, JAbsent, NoUrl),
     Entry(JStr(NameAiUndated), JOther, JOther, NoUrl),
     NoObject}

ItemsDoc(items) == [json |-> TRUE, hasItems |-> TRUE, items |-> items, count |-> Len(items)]

NotJsonDoc == [json |-> FALSE, hasItems |-> FALSE, items |-> <<>>, count |-> 0]

NoItemsDoc == [json |-> TRUE, hasItems |-> FALSE, items |-> <<>>, count |-> 0]

AiDocs == {ItemsDoc(items) : items \in SeqsUpTo(EntryCatalogue, MaxIndexItems)}
              \cup {NotJsonDoc, NoItemsDoc}

CryptoDocs ==
    {ItemsDoc(<<>>),
     ItemsDoc(<<Entry(JStr(NameCrypto03), JAbsent, JAbsent, NoUrl)>>),
     ItemsDoc(<<Entry(JStr(NameAi03), JAbsent, JAbsent, AbsContentUrl)>>)}

FixedIdx ==
    [c \in Channels |->
        IF c = "ai"
        THEN ItemsDoc(<<Entry(JStr(NameAi02), JAbsent, JAbsent, NoUrl),
                        Entry(JStr(NameAi03), JStr(ObjectNameOf("ai", NameAi03)), JAbsent, NoUrl)>>)
        ELSE ItemsDoc(<<Entry(JStr(NameCrypto03), JAbsent, JAbsent, NoUrl)>>)]

\* local files: "# T" and the empty text
LocalText == <<35, 32, 84>>

FileStates ==
    {[kind |-> "file", readable |-> TRUE, text |-> LocalText],
     [kind |-> "file", readable |-> TRUE, text |-> <<>>],
     [kind |-> "file", readable |-> FALSE, text |-> <<>>],
     [kind |-> "dir", readable |-> FALSE, text |-> <<>>]}

LocalNames == {NameAi03, NameAi02, NameAiUndated, NameAiB03, NameWechat03, NameNotes04}

AbsentDir == [present |-> FALSE, files |-> <<>>]

DirOf(files) == [present |-> TRUE, files |-> files]

FirstDirs ==
    {AbsentDir} \cup
    {DirOf(files) : files \in UNION {[S -> FileStates] :
                                        S \in {T \in SUBSET LocalNames : Cardinality(T) <= MaxDirFiles}}}

\* "# T2"
OtherText == <<35, 32, 84, 50>>

SecondDirs ==
    {AbsentDir,
     DirOf([n \in {NameAi03, NameBoth02, NameCrypto03} |->
               [kind |-> "file", readable |-> TRUE, text |-> OtherText]])}

\* a symbolic link to a file that holds "# T"
LinkState == [kind |-> "link", readable |-> TRUE, text |-> LocalText]

\* first directories of the search: a report with both markers, readable,
\* empty, unreadable, a directory or a link, beside a report of "ai"
SearchDirs ==
    {AbsentDir} \cup
    {DirOf([n \in {NameBoth02, NameAi03} |-> IF n = NameBoth02 THEN st
                                              ELSE [kind |-> "file", readable |-> TRUE, text |-> LocalText]]) :
        st \in FileStates \cup {LinkState}}

FixedDirs ==
    <<DirOf([n \in {NameAi03, NameCrypto03} |->
                [kind |-> "file", readable |-> TRUE, text |-> LocalText]]),
      AbsentDir>>

\* the names whose identifiers are asked for
DetailNames == {NameAi03, NameBoth02, NameWechat03, NameDotDot, NameNested}

DefaultNet == [index |-> [c \in Channels |-> "200"], content |-> [c \in Channels |-> TRUE]]

\* what the network may do during a call; a channel that is not asked is
\* left at "200" / TRUE
ListNets(asked) ==
    {[DefaultNet EXCEPT !.index = i] :
        i \in {f \in [Channels -> {"200", "500", "neterror"}] :
                  \A c \in Channels \ asked : f[c] = "200"}}

DetailNets(asked) ==
    {[index |-> i, content |-> k] :
        i \in {f \in [Channels -> {"200", "neterror"}] : \A c \in Channels \ asked : f[c] = "200"},
        k \in {f \in [Channels -> BOOLEAN] : \A c \in Channels \ asked : f[c]}}

ConfiguredChannels == {c \in Channels : getOssRuntimeConfig(c).present}

NoCall ==
    [op |-> "none", channel |-> "", slug |-> <<>>, preferred |-> "", net |-> DefaultNet,
     status |-> "ok", items |-> <<>>, detail |-> NoDetail, localReads |-> {}]

\* no deletion is under way and the bucket holds no report
DeleteOff ==
    /\ objects = {}
    /\ del = NoDelete
    /\ parked = NoDelete

\* signedRequest is not called on its own
NoRequest == [pc |-> "none"]

StoreOff == sreq = NoRequest

CodecOff ==
    /\ cName = <<>>
    /\ cSlug = <<>>
    /\ cBack = <<>>
    /\ cPc = "off"

\* every environment, beside a fixed index and fixed directories
WorldsByEnv ==
    /\ procEnv \in AllEnvs
    /\ envPy \in AllEnvPys
    /\ dirs = FixedDirs
    /\ idx = FixedIdx

\* every index document of "ai" up to MaxIndexItems entries, both channels
\* configured
WorldsByIndex ==
    /\ procEnv \in {EnvByIndexUrls, EnvByPublicBase}
    /\ envPy = EmptyEnvPy
    /\ dirs = FixedDirs
    /\ idx \in {[c \in Channels |-> IF c = "ai" THEN a ELSE k] : a \in AiDocs, k \in CryptoDocs}

\* every first directory up to MaxDirFiles entries, "ai" not configured
WorldsByDirs ==
    /\ procEnv \in {EmptyEnv, EnvRelBesidePublic}
    /\ envPy = EmptyEnvPy
    /\ dirs \in {<<d1, d2>> : d1 \in FirstDirs, d2 \in SecondDirs}
    /\ idx = FixedIdx

\* the worlds of the search for one report: the same name in both indexes
\* or in the directories, with and without a way to its content
WorldsOfSearch ==
    /\ procEnv \in {EmptyEnv, EnvByIndexUrls, EnvByPublicBase, EnvAiOnly, EnvRelBesidePublic}
    /\ envPy = EmptyEnvPy
    /\ dirs \in {<<d1, d2>> : d1 \in SearchDirs, d2 \in SecondDirs}
    /\ idx \in {[c \in Channels |-> IF c = "ai" THEN FixedIdx["ai"] ELSE k] : k \in CryptoDocs}

\* 161 times "a": one character more than an excerpt may hold
LongLine == [i \in 1..161 |-> 97]

\* the texts of a report, for its excerpt and its counts:
\*   "# T\n**12** 条 RSS 更新\n3 个核心主题\n> q"
\*   "7 条 rss 更新, **8**  条 RSS 更新"
\*   the long line, then "_b_"
\*   "# T\n\n---\n[^1]: n"
\*   "\n \n  T \nb", which starts with two blank lines
\*   " \n", which has no line but blank ones
SummaryTexts ==
    {<<35, 32, 84, 10, 42, 42, 49, 50, 42, 42, 32>> \o ItemMarker \o <<10, 51, 32>>
         \o ThemeMarker \o <<10, 62, 32, 113>>,
     <<55, 32, 26465, 32, 114, 115, 115, 32, 26356, 26032, 44, 32, 42, 42, 56, 42, 42, 32, 32>>
         \o ItemMarker,
     LongLine \o <<10, 95, 98, 95>>,
     <<35, 32, 84, 10, 10, 45, 45, 45, 10, 91, 94, 49, 93, 58, 32, 110>>,
     <<10, 32, 10, 32, 32, 84, 32, 10, 98>>,
     <<32, 10>>}

\* the entries of an index for the same report, with the excerpt and the
\* counts the index supplies: absent, of the right type, and of other types
SummaryEntries ==
    {[Entry(JStr(NameAi03), JAbsent, JAbsent, NoUrl) EXCEPT
         !.excerpt = x[1], !.itemCount = x[2], !.themeCount = x[3]] :
        x \in {<<JAbsent, JAbsent, JAbsent>>,
               <<JStr(<<32, 111, 107, 32>>), JNum(120), JNum(30)>>,
               <<JStr(LongLine), JNum(0), JStr(<<49, 50>>)>>,
               <<JNum(10), JNum(-10), JNum(15)>>,
               <<JStr(<<32>>), JStr(<<45, 51>>), JStr(<<97, 98, 99>>)>>,
               <<JNull, JTrue, JNull>>}}

\* one report, with every text in the first directory and every entry in
\* the index of "ai", listed from the directories or from the index
WorldsBySummary ==
    /\ procEnv \in {EmptyEnv, EnvAiOnly}
    /\ envPy = EmptyEnvPy
    /\ dirs \in {<<DirOf([n \in {NameAi03} |-> [kind |-> "file", readable |-> TRUE, text |-> t]]),
                   AbsentDir>> : t \in SummaryTexts}
    /\ idx \in {[FixedIdx EXCEPT !["ai"] = ItemsDoc(<<e>>)] : e \in SummaryEntries}

ListInit ==
    /\ CodecOff
    /\ StoreOff
    /\ DeleteOff
    /\ call = NoCall
    /\ (WorldsByEnv \/ WorldsByIndex \/ WorldsByDirs \/ WorldsBySummary)

ResolveInit ==
    /\ CodecOff
    /\ StoreOff
    /\ DeleteOff
    /\ call = NoCall
    /\ WorldsOfSearch

\* a page asks for the list of a channel
GetAllReports ==
    /\ call.op = "none"
    /\ \E channel \in Channels :
        \E net \in ListNets({channel} \cap ConfiguredChannels) :
            \E r \in {getAllReports(channel, net)} :
                call' = [NoCall EXCEPT !.op = "getAllReports", !.channel = channel, !.net = net,
                                       !.status = r.status, !.items = r.items,
                                       !.localReads = r.localReads]
    /\ UNCHANGED <<codecVars, sreq, worldVars, deleteVars>>

\* a page asks for one report
GetReportBySlug ==
    /\ call.op = "none"
    /\ \E slug \in {toSlug(name) : name \in DetailNames}, preferred \in {"", "ai", "crypto"} :
        \E net \in DetailNets(IF SlugAccepted(slug) THEN ConfiguredChannels ELSE {}) :
            \E r \in {getReportBySlug(slug, preferred, net)} :
                call' = [NoCall EXCEPT !.op = "getReportBySlug", !.slug = slug,
                                       !.preferred = preferred, !.net = net,
                                       !.status = r.status, !.detail = r.detail,
                                       !.localReads = r.localReads]
    /\ UNCHANGED <<codecVars, sreq, worldVars, deleteVars>>

\* the call has returned; the resolver keeps nothing between calls
Return ==
    /\ call.op # "none"
    /\ call' = NoCall
    /\ UNCHANGED <<codecVars, sreq, worldVars, deleteVars>>

ListNext == GetAllReports \/ Return

ResolveNext == GetAllReports \/ GetReportBySlug \/ Return

\* the listing, over every index document and directory content
Spec == ListInit /\ [][ListNext]_vars

\* the listing and the search for one report
SpecResolve == ResolveInit /\ [][ResolveNext]_vars

----------------------------------------------------------------------------
(* The DELETE request, one step for each wait of the handler *)

\* a key, a secret, a bucket and an endpoint: the bucket can be written
EnvWithKeys ==
    [EmptyEnv EXCEPT !["ALIYUN_OSS_ACCESS_KEY_ID"] = <<107>>,
                     !["ALIYUN_OSS_ACCESS_KEY_SECRET"] = <<115>>,
                     !["ALIYUN_OSS_BUCKET_NAME"] = BucketName,
                     !["OSS_ENDPOINT"] = EndpointRaw]

\* the same with one of the four left out, or with the endpoint "https://",
\* of which nothing is left once it is normalized
EnvsLackingOne ==
    {[EnvWithKeys EXCEPT ![k] = <<>>] :
        k \in {"ALIYUN_OSS_ACCESS_KEY_ID", "ALIYUN_OSS_ACCESS_KEY_SECRET",
               "ALIYUN_OSS_BUCKET_NAME", "OSS_ENDPOINT"}}
        \cup {[EnvWithKeys EXCEPT !["OSS_ENDPOINT"] = HttpsPrefix]}

\* "2024-01-03 - Karpathy 精选 RSS 日报素材": the materials of a report
MaterialsAi03 == D0103 \o Sep \o reportMarker("ai") \o MATERIAL_MARKER

\* a report with its derivative and its materials, and a copy of the report
\* in the second directory
DirsWithArtifacts ==
    <<DirOf([n \in {NameAi03, NameWechat03, MaterialsAi03} |->
                IF n = MaterialsAi03 THEN [kind |-> "dir", readable |-> FALSE, text |-> <<>>]
                ELSE [kind |-> "file", readable |-> TRUE, text |-> LocalText]]),
      DirOf([n \in {NameAi03} |-> [kind |-> "file", readable |-> TRUE, text |-> OtherText]])>>

\* an index that lists the same report twice, the first time without an
\* object name
TwiceIdx ==
    [FixedIdx EXCEPT !["ai"] =
        ItemsDoc(<<Entry(JStr(NameAi03), JAbsent, JAbsent, NoUrl),
                   Entry(JStr(NameAi02), JAbsent, JAbsent, NoUrl),
                   Entry(JStr(NameAi03), JStr(ObjectNameOf("ai", NameAi03)), JAbsent, NoUrl)>>)]

\* "archive/2024-01-02 - Karpathy 精选 RSS 日报.md": an object that does not
\* lie under the prefix
ArchivedAi02 == <<97, 114, 99, 104, 105, 118, 101>> \o Slash \o NameAi02

\* an index with an entry whose object lies elsewhere, an entry known by
\* its object name alone, and an item that is no object
MovedIdx ==
    [FixedIdx EXCEPT !["ai"] =
        ItemsDoc(<<Entry(JStr(NameAi02), JStr(ArchivedAi02), JAbsent, NoUrl),
                   NoObject,
                   Entry(JAbsent, JStr(ObjectNameOf("ai", NameAiB03)), JAbsent, NoUrl),
                   Entry(JStr(NameAi03), JAbsent, JAbsent, NoUrl)>>)]

\* the names whose identifiers are sent for deletion
DeleteNames ==
    {NameAi03, NameAi02, NameAiB03, NameCrypto03, NameDotDot, NameNested, NameWechat03}

DeleteInit ==
    /\ CodecOff
    /\ StoreOff
    /\ call = NoCall
    /\ procEnv \in {EmptyEnv, EnvWithKeys} \cup EnvsLackingOne
    /\ envPy = EmptyEnvPy
    /\ dirs \in {FixedDirs, DirsWithArtifacts}
    /\ idx \in {FixedIdx, TwiceIdx, MovedIdx, [FixedIdx EXCEPT !["ai"] = NotJsonDoc]}
    /\ objects = {ObjectNameOf("ai", NameAi03), ObjectNameOf("ai", NameAi02), ArchivedAi02,
                  ObjectNameOf("ai", NameAiB03), ObjectNameOf("crypto", NameCrypto03)}
    /\ del = NoDelete
    /\ parked = NoDelete

\* a slip that would swallow the failure and go on to the local cleanup
FailedQuietly(request) ==
    [del EXCEPT !.pc = "local", !.requests = @ \cup {request}, !.failed = request]

\* the request has failed: the catch of DELETE answers 500
Failed(request) ==
    [del EXCEPT !.pc = "respond", !.status = 500, !.requests = @ \cup {request}, !.failed = request]

\* DELETE up to its first wait: decodeSlug, then either the answer 400, or
\* deleteFromOss up to the GET of the index (route "bucket"), or the start
\* of the script (route "script")
StartDelete(routes, names) ==
    /\ del.pc = "idle"
    /\ \E route \in routes, slug \in {toSlug(name) : name \in names} :
        \E decoded \in {decodeSlug(slug)} :
            del' = IF ~decoded.valid
                   THEN [NoDelete EXCEPT !.pc = "respond", !.route = route, !.slug = slug,
                                         !.status = 400]
                   ELSE [NoDelete EXCEPT !.route = route, !.slug = slug,
                                         !.fileName = decoded.fileName,
                                         !.pc = IF route = "script" THEN "script"
                                                ELSE IF isOssConfigured(loadOssConfig)
                                                THEN "loadIndex"
                                                ELSE "local"]
    /\ UNCHANGED <<codecVars, sreq, worldVars, call, objects, parked>>

\* a request for any of the names on either route
DeleteRequest == StartDelete({"bucket", "script"}, DeleteNames)

\* loadIndexItems and the loop over the items
DeleteLoadIndex ==
    /\ del.pc = "loadIndex"
    /\ \E response \in {Responds(200, <<>>), Responds(404, <<>>), Responds(500, <<>>), Rejects} :
        \E loaded \in {loadIndexItems(loadOssConfig,
                                       buildIndexObjectName(loadOssConfig.prefix), response)} :
            IF ~loaded.ok THEN del' = Failed("GET index")
            ELSE \E split \in {SplitItems(loaded.items, del.fileName, <<>>, <<>>)} :
                    del' = [del EXCEPT
                               !.pc = "deleteObject",
                               !.requests = @ \cup {"GET index"},
                               !.read = loaded.items,
                               !.remaining = split.remaining,
                               !.objectName =
                                   IF split.objectName # <<>> THEN split.objectName
                                   ELSE buildReportObjectName(loadOssConfig.prefix, del.fileName)]
    /\ UNCHANGED <<codecVars, sreq, worldVars, call, objects, parked>>

\* deleteObject: signedRequest throws on an empty object name before any
\* request is made; 404 is let through
DeleteObject ==
    /\ del.pc = "deleteObject"
    /\ \E response \in {Responds(204, <<>>), Responds(404, <<>>), Responds(500, <<>>), Rejects} :
        \E resp \in {signedRequest(loadOssConfig, "DELETE", del.objectName, TRUE, response)} :
            IF ~resp.sent
            THEN /\ del' = [del EXCEPT !.pc = "respond", !.status = 500,
                                       !.failed = "DELETE object"]
                 /\ UNCHANGED objects
            ELSE IF resp.outcome = "throws"
            THEN /\ del' = Failed("DELETE object")
                 /\ UNCHANGED objects
            ELSE /\ del' = [del EXCEPT !.pc = "putIndex", !.requests = @ \cup {"DELETE object"}]
                 /\ objects' = objects \ {canonicalObjectName(del.objectName)}
    /\ UNCHANGED <<codecVars, sreq, worldVars, call, parked>>

\* putJsonObject of the remaining items, sorted
DeletePutIndex ==
    /\ del.pc = "putIndex"
    /\ \E response \in {Responds(200, <<>>), Responds(404, <<>>), Responds(500, <<>>), Rejects} :
        \E resp \in {signedRequest(loadOssConfig, "PUT",
                                    buildIndexObjectName(loadOssConfig.prefix), FALSE, response)} :
            IF resp.outcome = "throws"
            THEN /\ del' = Failed("PUT index")
                 /\ UNCHANGED idx
            ELSE /\ del' = [del EXCEPT !.pc = "local", !.requests = @ \cup {"PUT index"}]
                 /\ idx' = [idx EXCEPT ![indexChannel(buildIndexObjectName(loadOssConfig.prefix))] =
                                           indexPayload(nextItems(del.remaining))]
    /\ UNCHANGED <<codecVars, sreq, procEnv, envPy, dirs, call, objects, parked>>

\* a slip that would go on to the local cleanup whatever the script's end
DeleteRunScriptThenCleanup ==
    /\ del.pc = "script"
    /\ \E outcome \in {"0", "nonzero", "timeout"} :
        del' = IF outcome = "0"
               THEN [del EXCEPT !.pc = "local", !.requests = @ \cup {"script"}]
               ELSE FailedQuietly("script")
    /\ UNCHANGED <<codecVars, sreq, worldVars, call, objects, parked>>

\* runDeleteScript: the script ends with code 0, with another code, or is
\* killed after 120 seconds; what it does to the bucket is not part of the
\* sources
DeleteRunScript ==
    /\ del.pc = "script"
    /\ \E outcome \in {"0", "nonzero", "timeout"} :
        del' = IF outcome = "0"
               THEN [del EXCEPT !.pc = "local", !.requests = @ \cup {"script"}]
               ELSE Failed("script")
    /\ UNCHANGED <<codecVars, sreq, worldVars, call, objects, parked>>

\* deleteLocalArtifacts, then the answer 200; removed holds the paths that
\* were handed to fs.rm
DeleteLocal ==
    /\ del.pc = "local"
    /\ \E outputDirs \in {IF del.route = "bucket" THEN {1, 2} ELSE {1}} :
        \E t \in {localTargets(del.fileName)} :
            /\ dirs' = deleteLocalArtifacts(del.fileName, outputDirs)
            /\ del' = [del EXCEPT !.pc = "respond", !.status = 200,
                                  !.removed = {[dir |-> d, name |-> n] :
                                                  d \in outputDirs,
                                                  n \in {t.report, t.wechat, t.materials}}]
    /\ UNCHANGED <<codecVars, sreq, procEnv, envPy, idx, call, objects, parked>>

\* the answer is sent
DeleteRespond ==
    /\ del.pc = "respond"
    /\ del' = NoDelete
    /\ UNCHANGED <<codecVars, sreq, worldVars, call, objects, parked>>

DeleteNext ==
    \/ DeleteRequest
    \/ DeleteLoadIndex
    \/ DeleteObject
    \/ DeletePutIndex
    \/ DeleteRunScript
    \/ DeleteLocal
    \/ DeleteRespond

\* one request at a time
SpecDelete == DeleteInit /\ [][DeleteNext]_vars

\* Deletions over the bucket and listings by turns: the bucket and its
\* endpoint are set, so both channels are listed from their indexes
SyncInit ==
    /\ CodecOff
    /\ StoreOff
    /\ call = NoCall
    /\ procEnv = EnvWithKeys
    /\ envPy = EmptyEnvPy
    /\ dirs = FixedDirs
    /\ idx \in {FixedIdx, MovedIdx, TwiceIdx}
    /\ objects = {ObjectNameOf("ai", NameAi03), ObjectNameOf("ai", NameAi02), ArchivedAi02,
                  ObjectNameOf("ai", NameAiB03), ObjectNameOf("crypto", NameCrypto03)}
    /\ del = NoDelete
    /\ parked = NoDelete

\* a request over the bucket for a report of either channel
SyncRequest == StartDelete({"bucket"}, {NameAi03, NameAiB03, NameCrypto03})

SyncNext ==
    \/ SyncRequest
    \/ DeleteLoadIndex
    \/ DeleteObject
    \/ DeletePutIndex
    \/ DeleteLocal
    \/ DeleteRespond
    \/ GetAllReports
    \/ Return

SpecSync == SyncInit /\ [][SyncNext]_vars

\* Two requests at once.  Every step of a request ends at an await, where
\* the other request may be resumed: Switch hands the turn over.
Switch ==
    /\ del # parked
    /\ del' = parked
    /\ parked' = del
    /\ UNCHANGED <<codecVars, sreq, worldVars, call, objects>>

RaceInit ==
    /\ CodecOff
    /\ StoreOff
    /\ call = NoCall
    /\ procEnv = EnvWithKeys
    /\ envPy = EmptyEnvPy
    /\ dirs = FixedDirs
    /\ idx \in {FixedIdx, MovedIdx}
    /\ objects = {ObjectNameOf("ai", NameAi03), ObjectNameOf("ai", NameAi02), ArchivedAi02}
    /\ del = NoDelete
    /\ parked = NoDelete

\* a request over the bucket for one of two reports of the index
RaceRequest == StartDelete({"bucket"}, {NameAi03, NameAi02})

RaceNext ==
    \/ RaceRequest
    \/ DeleteLoadIndex
    \/ DeleteObject
    \/ DeletePutIndex
    \/ DeleteLocal
    \/ DeleteRespond
    \/ Switch

SpecRace == RaceInit /\ [][RaceNext]_vars

\* Waiting for the remote.  A request that has been sent goes on only when
\* fetch settles: with a response, or with a failure of the transport.  The
\* init of the fetch is { cache: "no-store" } in the resolver and { method,
\* headers, body } in signedRequest: neither holds a signal, so nothing in
\* the program settles a fetch that the server leaves unanswered.
WaitInit ==
    /\ CodecOff
    /\ StoreOff
    /\ call = NoCall
    /\ procEnv \in {EmptyEnv, EnvWithKeys}
    /\ envPy = EmptyEnvPy
    /\ dirs = FixedDirs
    /\ idx \in {FixedIdx, MovedIdx}
    /\ objects = {ObjectNameOf("ai", NameAi03), ObjectNameOf("ai", NameAi02), ArchivedAi02,
                  ObjectNameOf("ai", NameAiB03), ObjectNameOf("crypto", NameCrypto03)}
    /\ del = NoDelete
    /\ parked = NoDelete

\* a request on either route for a report of the index
WaitRequest == StartDelete({"bucket", "script"}, {NameAi03, NameAiB03})

\* getAllReports up to its first wait: the fetch of the index is sent when
\* the channel is configured, otherwise the directories are read at once
BeginGetAllReports ==
    /\ call.op = "none"
    /\ \E channel \in Channels :
        IF channel \in ConfiguredChannels
        THEN call' = [NoCall EXCEPT !.op = "getAllReports", !.channel = channel,
                                    !.status = "waiting"]
        ELSE \E r \in {getAllReports(channel, DefaultNet)} :
                call' = [NoCall EXCEPT !.op = "getAllReports", !.channel = channel,
                                       !.status = r.status, !.items = r.items,
                                       !.localReads = r.localReads]
    /\ UNCHANGED <<codecVars, sreq, worldVars, deleteVars>>

\* the fetch of the index settles and getAllReports runs to its end
IndexFetchSettles ==
    /\ call.op = "getAllReports"
    /\ call.status = "waiting"
    /\ \E net \in ListNets({call.channel}) :
        \E r \in {getAllReports(call.channel, net)} :
            call' = [call EXCEPT !.net = net, !.status = r.status, !.items = r.items,
                                 !.localReads = r.localReads]
    /\ UNCHANGED <<codecVars, sreq, worldVars, deleteVars>>

\* the call has returned to the page
ReturnToPage ==
    /\ call.op # "none"
    /\ call.status # "waiting"
    /\ call' = NoCall
    /\ UNCHANGED <<codecVars, sreq, worldVars, deleteVars>>

WaitNext ==
    \/ WaitRequest
    \/ DeleteLoadIndex
    \/ DeleteObject
    \/ DeletePutIndex
    \/ DeleteRunScript
    \/ DeleteLocal
    \/ DeleteRespond
    \/ BeginGetAllReports
    \/ IndexFetchSettles
    \/ ReturnToPage

\* The steps that are the program's own are taken once they can be: the
\* event loop runs every continuation that is ready, the file system
\* answers, and the script ends or is killed by the timer of 120 seconds.
\* The steps that need an answer of the remote server (IndexFetchSettles,
\* DeleteLoadIndex, DeleteObject, DeletePutIndex) are left to the server.
SpecWait ==
    /\ WaitInit
    /\ [][WaitNext]_vars
    /\ WF_vars(DeleteRunScript)
    /\ WF_vars(DeleteLocal)
    /\ WF_vars(DeleteRespond)
    /\ WF_vars(ReturnToPage)

----------------------------------------------------------------------------
(* signedRequest on its own: every method, with and without allowNotFound, *)
(* over object names with slashes and white space in front and over        *)
(* responses of every class of status, src/unnamed/part_005:69-114         *)

\* 501 times "e": one character more than the detail of a failure may hold
LongBody == [i \in 1..501 |-> 101]

\* "a", "/a", "//a/b", " /a", "/ /a", " a ", "/", " ", "", "/ " and " /"
StoreNames ==
    {<<97>>, <<47, 97>>, <<47, 47, 97, 47, 98>>, <<32, 47, 97>>, <<47, 32, 47, 97>>,
     <<32, 97, 32>>, <<47>>, <<32>>, <<>>, <<47, 32>>, <<32, 47>>}

StoreResponses ==
    {Rejects} \cup
    {Responds(status, body) :
        status \in {200, 204, 299, 300, 304, 403, 404, 500},
        body \in {<<>>, <<32, 32>>, <<32, 120, 32>>, LongBody}}

StoreInit ==
    /\ CodecOff
    /\ DeleteOff
    /\ call = NoCall
    /\ sreq = NoRequest
    /\ procEnv = EnvWithKeys
    /\ envPy = EmptyEnvPy
    /\ dirs = FixedDirs
    /\ idx = FixedIdx

\* a call of signedRequest, to its return or to its throw
SignedRequest ==
    /\ sreq.pc = "none"
    /\ \E method \in {"GET", "PUT", "DELETE"}, objectName \in StoreNames,
          allowNotFound \in BOOLEAN, response \in StoreResponses :
        sreq' = [pc |-> "done", method |-> method, objectName |-> objectName,
                 allowNotFound |-> allowNotFound, response |-> response,
                 result |-> signedRequest(loadOssConfig, method, objectName, allowNotFound,
                                          response)]
    /\ UNCHANGED <<codecVars, worldVars, call, deleteVars>>

\* the caller goes on
SignedRequestDone ==
    /\ sreq.pc = "done"
    /\ sreq' = NoRequest
    /\ UNCHANGED <<codecVars, worldVars, call, deleteVars>>

StoreNext == SignedRequest \/ SignedRequestDone

SpecStore == StoreInit /\ [][StoreNext]_vars

----------------------------------------------------------------------------
(* Identifiers as they arrive: any text, not only what toSlug gives.  The  *)
(* DELETE routes hand it to decodeSlug, the resolver to the guard of       *)
(* getReportBySlug.                                                        *)

\* 'Z' 'A' 'B' 'Y' 'Q' 'R' 'g', and '!' '=' '/' of which none is in the
\* URL-safe alphabet
SlugAlphabet == {90, 65, 66, 89, 81, 82, 103, 33, 61, 47}

\* the most characters drawn after the fixed start of an identifier
MaxSlugTail == 3

\* every text up to MaxSlugTail characters, alone or after "YS5t" (which is
\* the start of toSlug("a.md") = "YS5tZA")
RawSlugs ==
    {start \o tail : start \in {<<>>, <<89, 83, 53, 116>>},
                     tail \in SeqsUpTo(SlugAlphabet, MaxSlugTail)}

IdentInit ==
    /\ cName = <<>>
    /\ cSlug \in RawSlugs
    /\ cBack = <<>>
    /\ cPc = "slug"
    /\ procEnv = EmptyEnv
    /\ envPy = EmptyEnvPy
    /\ dirs = <<AbsentDir, AbsentDir>>
    /\ idx = [c \in Channels |-> NoItemsDoc]
    /\ call = NoCall
    /\ DeleteOff
    /\ StoreOff

\* decodeSlug of a DELETE route: the file name, or null
DecodeSlug ==
    /\ cPc = "slug"
    /\ \E decoded \in {decodeSlug(cSlug)} :
        /\ cBack' = decoded.fileName
        /\ cPc' = IF decoded.valid THEN "valid" ELSE "invalid"
    /\ UNCHANGED <<cName, cSlug, worldVars, call, deleteVars, sreq>>

\* the guard of getReportBySlug: the search goes on with the file name, or
\* null is returned
GuardSlug ==
    /\ cPc = "slug"
    /\ cBack' = IF SlugAccepted(cSlug) THEN fromSlug(cSlug) ELSE <<>>
    /\ cPc' = IF SlugAccepted(cSlug) THEN "searched" ELSE "null"
    /\ UNCHANGED <<cName, cSlug, worldVars, call, deleteVars, sreq>>

IdentNext == DecodeSlug \/ GuardSlug

SpecIdent == IdentInit /\ [][IdentNext]_vars

----------------------------------------------------------------------------
(* The codec on its own: every name up to MaxNameLen over an alphabet with *)
(* one-, two- and three-byte characters, a surrogate pair and the          *)
(* separator                                                               *)

\* '.' '/' 'a' U+00E9 U+65E5 and the two halves of U+1F600
CodecAlphabet == {46, 47, 97, 233, 26085, 55357, 56832}

CodecNames == SeqsUpTo(CodecAlphabet, MaxNameLen)

RECURSIVE WellFormedUtf16(_)
WellFormedUtf16(s) ==
    IF s = <<>> THEN TRUE
    ELSE IF IsHighSurrogate(Head(s))
    THEN Len(s) >= 2 /\ IsLowSurrogate(s[2]) /\ WellFormedUtf16(Drop(s, 2))
    ELSE ~IsLowSurrogate(Head(s)) /\ WellFormedUtf16(Tail(s))

\* a basename: well-formed text without a path separator
ValidBasename(f) == WellFormedUtf16(f) /\ ~Includes(f, Slash)

CodecInit ==
    /\ cName \in CodecNames
    /\ cSlug = <<>>
    /\ cBack = <<>>
    /\ cPc = "in"
    /\ procEnv = EmptyEnv
    /\ envPy = EmptyEnvPy
    /\ dirs = <<AbsentDir, AbsentDir>>
    /\ idx = [c \in Channels |-> NoItemsDoc]
    /\ call = NoCall
    /\ DeleteOff
    /\ StoreOff

CodecEncode ==
    /\ cPc = "in"
    /\ cSlug' = toSlug(cName)
    /\ cPc' = "encoded"
    /\ UNCHANGED <<cName, cBack, worldVars, call, deleteVars, sreq>>

CodecDecode ==
    /\ cPc = "encoded"
    /\ cBack' = fromSlug(cSlug)
    /\ cPc' = "decoded"
    /\ UNCHANGED <<cName, cSlug, worldVars, call, deleteVars, sreq>>

CodecNext == CodecEncode \/ CodecDecode

SpecCodec == CodecInit /\ [][CodecNext]_vars

\* C1: for every valid basename f without a path separator,
\* fromSlug(toSlug(f)) is exactly f.
C1_RoundTrip ==
    (cPc = "decoded" /\ ValidBasename(cName)) => cBack = cName

\* a name with a three-byte character and a surrogate pair has gone
\* through both conversions
C1_Witness ==
    /\ cPc = "decoded"
    /\ ValidBasename(cName)
    /\ Len(cName) = 3
    /\ \E i \in 1..Len(cName) : cName[i] = 26085
    /\ \E i \in 1..Len(cName) : cName[i] = 55357

----------------------------------------------------------------------------
(* The listing and the search *)

C4_FallsBackToLocal ==
    (/\ call.op = "getAllReports"
     /\ call.channel \in ConfiguredChannels
     /\ call.net.index[call.channel] # "200")
        => call.items = PublicMetas(getAllLocalReportsInternal(call.channel).items)

\* C5: when the index URL of a channel is empty or not an absolute http(s)
\* URL, getAllReports returns exactly the list of the local directories and
\* raises no error.
C5_UnusableUrlGivesLocal ==
    (call.op = "getAllReports" /\ call.channel \notin ConfiguredChannels)
        => /\ call.status = "ok"
           /\ call.items = PublicMetas(getAllLocalReportsInternal(call.channel).items)

\* C6: with a remote configuration, a fetch of the index that fails, answers
\* with a non-success status, or gives a body that is not JSON or has no
\* items array, gives the empty list and nothing is thrown.
C6_RemoteFailureDegrades ==
    (/\ call.op = "getAllReports"
     /\ call.channel \in ConfiguredChannels
     /\ \/ call.net.index[call.channel] # "200"
        \/ ~idx[call.channel].json
        \/ ~idx[call.channel].hasItems)
        => /\ call.status = "ok"
           /\ call.items = <<>>
           /\ getAllOssReportsInternal(call.channel, getOssRuntimeConfig(call.channel),
                                       IndexResponse(call.channel, call.net)) = <<>>

\* the index answers 500 with a document that lists a report
C6_Witness ==
    /\ call.op = "getAllReports"
    /\ call.channel = "ai"
    /\ "ai" \in ConfiguredChannels
    /\ call.net.index["ai"] = "500"
    /\ idx["ai"].json
    /\ idx["ai"].hasItems
    /\ \E i \in 1..Len(idx["ai"].items) : EntryKept(idx["ai"].items[i])
    /\ call.status = "ok"
    /\ call.items = <<>>

\* C7: in every list of getAllReports adjacent summaries are in descending
\* order of their date field and, for equal dates, in descending order of
\* fileName.
C7_OrderedByDateField ==
    call.op = "getAllReports" =>
        \A i \in 1..(Len(call.items) - 1) :
            \/ localeCompare(call.items[i].date, call.items[i + 1].date) > 0
            \/ /\ localeCompare(call.items[i].date, call.items[i + 1].date) = 0
               /\ localeCompare(call.items[i].fileName, call.items[i + 1].fileName) >= 0

\* C8: every report whose fileName has no leading date comes after every
\* report whose fileName has one.
C8_UnknownDatesLast ==
    call.op = "getAllReports" =>
        \A i, j \in 1..Len(call.items) :
            (/\ safeDateFromName(call.items[i].fileName) = UnknownDate
             /\ safeDateFromName(call.items[j].fileName) # UnknownDate) => j < i

\* C9: every summary of getAllReports(channel) has a fileName that ends with
\* ".md", contains the marker of the channel and neither exclusion marker.
C9_ChannelQualified ==
    call.op = "getAllReports" =>
        \A i \in 1..Len(call.items) :
            /\ EndsWith(call.items[i].fileName, DotMd)
            /\ Includes(call.items[i].fileName, reportMarker(call.channel))
            /\ ~Includes(call.items[i].fileName, WECHAT_MARKER)
            /\ ~Includes(call.items[i].fileName, MATERIAL_MARKER)

\* the channel gives the summary of fileName and the content of it
ChannelYieldsBoth(fileName, channel, net) ==
    \E meta \in {findReportMetaInChannel(fileName, channel, net)} :
        meta.ok /\ meta.found /\ toReportDetail(meta.meta, net).found

\* C10: getReportBySlug returns the detail of the first channel, in the
\* order that begins with the preferred one, that gives both the summary
\* and the content; it returns null only when no channel gives both, and
\* never a summary without content.
C10_FirstChannelWithBoth ==
    (call.op = "getReportBySlug" /\ SlugAccepted(call.slug)) =>
        \E fileName \in {fromSlug(call.slug)} :
            LET order == getChannelSearchOrder(call.preferred)
                yielding == {i \in 1..Len(order) :
                                ChannelYieldsBoth(fileName, order[i], call.net)}
            IN  /\ yielding # {} =>
                        /\ call.status = "ok"
                        /\ call.detail.found
                        /\ call.detail.meta.channel = order[Least(yielding)]
                        /\ call.detail.meta.fileName = fileName
                /\ (call.status = "ok" /\ ~call.detail.found) => yielding = {}
                /\ call.detail.found => "content" \in DOMAIN call.detail

----------------------------------------------------------------------------
(* Deletion *)

\* the text has a path separator, or is the name of the parent directory
IsTraversal(text) == Includes(text, Slash) \/ text = <<46, 46>>

\* C2: for every identifier whose decoded text contains "/" or is a ".."
\* name, decoding gives "invalid" and no file name reaches a storage
\* operation: getReportBySlug finds nothing and reads nothing, DELETE answers
\* 400 and makes no request to the bucket, starts no script and removes no
\* local file.
C2_TraversalRejected ==
    /\ (call.op = "getReportBySlug" /\ IsTraversal(fromSlug(call.slug)))
           => (~call.detail.found /\ call.localReads = {})
    /\ (del.pc # "idle" /\ IsTraversal(fromSlug(del.slug)))
           => /\ del.pc = "respond"
              /\ del.status = 400
              /\ del.fileName = <<>>
              /\ del.requests = {}
              /\ del.removed = {}

----------------------------------------------------------------------------
(* The content of a local report *)

\* the directories that hold fileName as a file
HoldingDirs(fileName) ==
    {d \in {1, 2} : /\ dirs[d].present
                    /\ fileName \in DOMAIN dirs[d].files
                    /\ dirs[d].files[fileName].kind = "file"}

\* C11: with no remote configuration, for every report file that exists in
\* a local output directory and qualifies for a channel, also one whose text
\* is empty, getReportBySlug returns a detail whose content is the raw text
\* of the file.
C11_LocalDetailHasFileText ==
    (/\ call.op = "getReportBySlug"
     /\ ConfiguredChannels = {}
     /\ SlugAccepted(call.slug)
     /\ HoldingDirs(fromSlug(call.slug)) # {}
     /\ \E c \in Channels : matchChannelFileName(fromSlug(call.slug), c))
        => /\ call.status = "ok"
           /\ call.detail.found
           /\ call.detail.content
                  = dirs[Least(HoldingDirs(fromSlug(call.slug)))].files[fromSlug(call.slug)].text

----------------------------------------------------------------------------
(* The effect of a deletion on the index *)

\* the number of places of seq that hold e
Count(seq, e) == Cardinality({i \in 1..Len(seq) : seq[i] = e})

\* the two sequences hold the same entries, each as many times
SameEntries(a, b) ==
    /\ Len(a) = Len(b)
    /\ \A i \in 1..Len(a) : Count(a, a[i]) = Count(b, a[i])

\* the request over the bucket has read the index, deleted the object and
\* written the index
RewroteIndex ==
    /\ del.route = "bucket"
    /\ del.failed = ""
    /\ "PUT index" \in del.requests

C13_SuccessOnlyIfPersisted ==
    (del.route = "bucket" /\ isOssConfigured(loadOssConfig) /\ del.pc = "respond") =>
        /\ del.status \in {200, 400, 500}
        /\ del.status = 200 =>
               /\ del.failed = ""
               /\ {"GET index", "DELETE object", "PUT index"} \subseteq del.requests
               /\ idx["ai"] = ItemsDoc(nextItems(del.remaining))
        /\ del.failed # "" => del.status = 500
        /\ del.status = 400 => del.requests = {}

\* the object was deleted, the PUT of the index failed, the answer is 500
\* and the index still lists the report
C13_Witness ==
    /\ del.route = "bucket"
    /\ isOssConfigured(loadOssConfig)
    /\ del.pc = "respond"
    /\ del.status = 500
    /\ del.failed = "PUT index"
    /\ del.fileName = NameAi03
    /\ ObjectNameOf("ai", NameAi03) \notin objects
    /\ \E i \in 1..Len(idx["ai"].items) : idx["ai"].items[i].fileName = JStr(NameAi03)

----------------------------------------------------------------------------
(* Two deletions at once *)

\* the items hold an entry of the name
Lists(items, fileName) == \E i \in 1..Len(items) : items[i].fileName = JStr(fileName)

\* the request has read, deleted and written, and is about to answer 200
Succeeded(request) ==
    /\ request.pc = "respond"
    /\ request.status = 200
    /\ request.failed = ""
    /\ "PUT index" \in request.requests

\* C14: two deletions of different names on the same index can both
\* succeed while the index still lists one of the names: when each request
\* read the index before the other wrote it, the write that comes last puts
\* back the entry the other request removed.
C14_LostUpdate ==
    (/\ Succeeded(del)
     /\ Succeeded(parked)
     /\ del.fileName # parked.fileName
     /\ Lists(del.read, parked.fileName)
     /\ Lists(parked.read, del.fileName))
        => \/ Lists(idx["ai"].items, del.fileName)
           \/ Lists(idx["ai"].items, parked.fileName)

\* both deletions have succeeded, the one of "2024-01-03 ..." wrote first,
\* and the index lists that report again, while its object is gone
C14_Witness ==
    /\ Succeeded(del)
    /\ Succeeded(parked)
    /\ parked.fileName = NameAi03
    /\ del.fileName = NameAi02
    /\ Lists(del.read, NameAi03)
    /\ Lists(parked.read, NameAi02)
    /\ Lists(idx["ai"].items, NameAi03)
    /\ ~Lists(idx["ai"].items, NameAi02)
    /\ ObjectNameOf("ai", NameAi03) \notin objects

----------------------------------------------------------------------------
(* Deletion without remote storage *)

\* one of the key id, the secret, the bucket and the normalized endpoint
\* is empty
LacksOne ==
    \/ loadOssConfig.accessKeyId = <<>>
    \/ loadOssConfig.accessKeySecret = <<>>
    \/ loadOssConfig.bucketName = <<>>
    \/ normalizeEndpoint(loadOssConfig.endpoint) = <<>>

\* C15: when one of the four is empty the route over the bucket sends no
\* request at all, still removes the local artifacts, and answers 200.
C15_UnconfiguredIsLocalOnly ==
    (del.route = "bucket" /\ LacksOne) =>
        /\ del.requests = {}
        /\ del.failed = ""
        /\ del.pc \in {"local", "respond"}
        /\ (del.pc = "respond" /\ del.fileName # <<>>) =>
               /\ del.status = 200
               /\ \A d \in {1, 2} : [dir |-> d, name |-> del.fileName] \in del.removed
               /\ \A d \in {1, 2} : dirs[d].present => del.fileName \notin DOMAIN dirs[d].files

\* the secret alone is missing; the report, its derivative and its materials
\* are gone from the first directory, nothing was sent, the answer is 200
C15_Witness ==
    /\ del.route = "bucket"
    /\ loadOssConfig.accessKeySecret = <<>>
    /\ loadOssConfig.accessKeyId # <<>>
    /\ del.pc = "respond"
    /\ del.status = 200
    /\ del.fileName = NameAi03
    /\ del.requests = {}
    /\ DOMAIN dirs[1].files = {}
    /\ ObjectNameOf("ai", NameAi03) \in objects

----------------------------------------------------------------------------
(* The listing after a deletion *)

\* the items hold an entry that the listing shows under the name
Shows(items, fileName) ==
    \E i \in 1..Len(items) : EntryKept(items[i]) /\ EntryFileName(items[i]) = fileName

\* the listing of the channel showed the name before the request: for the
\* index the request read, by what it read; the other index is written by
\* no request, so it showed then what it shows now
ShowedBefore(channel, request) ==
    IF channel = "ai" THEN Shows(request.read, request.fileName)
    ELSE idx[channel].json /\ idx[channel].hasItems /\ Shows(idx[channel].items, request.fileName)

\* C16: after a DELETE for a report that the listing of a channel showed
\* from the index has answered 200, getAllReports of that channel no longer
\* lists the report and the index of the channel has no entry for it.
C16_DeletedIsNoLongerListed ==
    (/\ Succeeded(del)
     /\ call.op = "getAllReports"
     /\ call.net.index[call.channel] = "200"
     /\ call.items = getAllReports(call.channel, call.net).items
     /\ ShowedBefore(call.channel, del))
        => /\ \A i \in 1..Len(call.items) : call.items[i].fileName # del.fileName
           /\ ~Shows(idx[call.channel].items, del.fileName)

----------------------------------------------------------------------------
(* C17: bounded waiting.  Every call that has gone out to the remote       *)
(* server is bounded in time, so a listing that waits for the index comes  *)
(* back to the page and a DELETE that waits for the bucket or for the      *)
(* script gets to its answer, whether or not the server ever responds.     *)

AwaitsRemote == del.pc \in {"loadIndex", "deleteObject", "putIndex"}

C17_WaitingEnds ==
    /\ (call.status = "waiting") ~> (call.status # "waiting")
    /\ (AwaitsRemote \/ del.pc = "script") ~> (del.pc = "respond")

\* what does hold: the wait for the script, which runs under a timer
C17_ScriptWaitEnds == (del.pc = "script") ~> (del.pc = "respond")

----------------------------------------------------------------------------
(* C18: identifier uniqueness.  No list returned by getAllReports holds    *)
(* two summaries with the same slug, or the same fileName, whether the     *)
(* list comes from the directories or from the index, and also when the    *)
(* index holds several entries that derive the same fileName.              *)

C18_NoTwoSummariesShareSlug ==
    (call.op = "getAllReports" /\ call.status = "ok") =>
        \A i, j \in 1..Len(call.items) :
            i # j => /\ call.items[i].slug # call.items[j].slug
                     /\ call.items[i].fileName # call.items[j].fileName

----------------------------------------------------------------------------
(* C19: excerpt cap.  Every summary returned by getAllReports has an       *)
(* excerpt of at most 160 characters, whether buildExcerpt derived it from *)
(* the text of a local file or an entry of the remote index supplied it.   *)

C19_ExcerptAtMost160 ==
    call.op = "getAllReports" =>
        \A i \in 1..Len(call.items) : Len(call.items[i].excerpt) <= 160

----------------------------------------------------------------------------
(* C20: count fields.  Every summary returned by getAllReports has an      *)
(* itemCount and a themeCount that are non-negative integers, 0 when the   *)
(* text or the entry gives none, whether the regular expressions drew them *)
(* from a local text or the remote index supplied them, as a value of any  *)
(* JSON type.                                                              *)

\* a number held in tenths is a non-negative integer
IsCount(n) == n >= 0 /\ n % 10 = 0

C20_CountsAreNonNegativeIntegers ==
    call.op = "getAllReports" =>
        \A i \in 1..Len(call.items) :
            IsCount(call.items[i].itemCount) /\ IsCount(call.items[i].themeCount)

----------------------------------------------------------------------------
(* C21: title of a local summary.  The title is the first line of the      *)
(* document that is not empty, trimmed, also when blank lines come before  *)
(* it; the file name without ".md" is the title only when the document has *)
(* no line that is not empty.                                              *)

\* the lines of a text that are not blank, trimmed
FilledLines(text) ==
    LET IsFilled(line) == line # <<>>
        Trimmed(split) == [k \in 1..Len(split) |-> Trim(split[k])]
    IN  SelectSeq(Trimmed(SplitLines(text)), IsFilled)

\* the list was built from the directories
ListedFromDirs == call.op = "getAllReports" /\ call.status = "ok" /\ call.localReads # {}

C21_TitleIsFirstFilledLine ==
    ListedFromDirs =>
        \A i \in 1..Len(call.items) :
            \E text \in {dirs[filePathMap(call.items[i].fileName)].files[call.items[i].fileName].text} :
                call.items[i].title = IF FilledLines(text) # <<>> THEN FilledLines(text)[1]
                                      ELSE WithoutMd(call.items[i].fileName)

----------------------------------------------------------------------------
(* C22: qualification on deletion.  A DELETE whose identifier decodes to a *)
(* file name that is no report (it does not end in ".md", or it holds a    *)
(* marker of a derivative or of materials) is answered as an invalid       *)
(* identifier, and neither a request to the bucket, nor the script, nor a  *)
(* local removal is made for it.                                           *)

C22_UnqualifiedIsInvalid ==
    (del.pc # "idle" /\ ~isReportLikeMarkdown(fromSlug(del.slug))) =>
        /\ del.pc = "respond"
        /\ del.status = 400
        /\ del.requests = {}
        /\ del.removed = {}

----------------------------------------------------------------------------
(* C23: the index never grows.  Every index document written by           *)
(* deleteFromOss holds only entries of the index document it read in the   *)
(* same call, none added and none altered, and at most one entry of the    *)
(* index that was read is missing from it.                                 *)

\* every entry of the written index was read, as many times at least
OnlyEntriesRead ==
    \A i \in 1..Len(idx["ai"].items) :
        Count(idx["ai"].items, idx["ai"].items[i]) <= Count(del.read, idx["ai"].items[i])

C23_AtMostOneEntryLess ==
    RewroteIndex =>
        /\ idx["ai"].json /\ idx["ai"].hasItems
        /\ OnlyEntriesRead
        /\ Len(del.read) - Len(idx["ai"].items) <= 1

----------------------------------------------------------------------------
(* C24: shape of the rewritten index.  Every index document written by     *)
(* deleteFromOss has its items in descending order of fileName and a count *)
(* equal to the number of its items, and it replaces the index object as a *)
(* whole: the document holds the remaining items and nothing else.         *)

InDescendingOrder(items) ==
    \A i, j \in 1..Len(items) :
        i < j => localeCompare(StringOf(items[i].fileName), StringOf(items[j].fileName)) >= 0

C24_RewrittenIndexShape ==
    RewroteIndex =>
        /\ idx["ai"].json /\ idx["ai"].hasItems
        /\ InDescendingOrder(idx["ai"].items)
        /\ idx["ai"].count = Len(idx["ai"].items)
        /\ SameEntries(idx["ai"].items, del.remaining)

\* two items were written, in another order than the loop left them, over
\* an index document of four items
C24_Witness ==
    /\ RewroteIndex
    /\ del.fileName = NameAi02
    /\ Len(del.read) = 3
    /\ idx["ai"].count = 2
    /\ idx["ai"].items # del.remaining
    /\ StringOf(idx["ai"].items[2].fileName) = <<>>

----------------------------------------------------------------------------
(* C25: responses of the object store.  signedRequest returns exactly when *)
(* the status of the response is 2xx, or is 404 and the call allows        *)
(* not-found; for every other status, 404 on a PUT included, it throws a   *)
(* failure that carries the status and the body of the response cut to 500 *)
(* characters; and a 404 on the GET of the index gives an empty list of    *)
(* items.                                                                  *)

\* detail is the body cut to 500 characters, white space around it aside
\* (a body of white space alone has no detail to carry)
IsBodyCut(detail, body) ==
    \E text \in {Trim(body)} :
        text # <<>> =>
            /\ Len(detail) = (IF Len(text) < 500 THEN Len(text) ELSE 500)
            /\ detail = SubSeq(text, 1, Len(detail))

\* fetch was called and a response came back
GotResponse == sreq.pc = "done" /\ sreq.result.sent /\ sreq.response.kind = "response"

C25_ReturnsOn2xxOrAllowed404 ==
    /\ GotResponse =>
           /\ (sreq.result.outcome = "returns") <=>
                  \/ sreq.response.status \in 200..299
                  \/ sreq.response.status = 404 /\ sreq.allowNotFound
           /\ sreq.result.outcome = "throws" =>
                  /\ sreq.result.status = sreq.response.status
                  /\ IsBodyCut(sreq.result.detail, sreq.response.body)
           /\ sreq.result.outcome = "returns" => sreq.result.status = sreq.response.status
    /\ \A body \in {<<>>, LongBody} :
           loadIndexItems(loadOssConfig, buildIndexObjectName(loadOssConfig.prefix),
                          Responds(404, body)) = [ok |-> TRUE, items |-> <<>>]

\* a PUT that was answered 404 with a body of 501 characters has thrown,
\* with the first 500 of them, though the call allowed not-found
C25_Witness ==
    /\ GotResponse
    /\ sreq.method = "PUT"
    /\ sreq.response.status = 404
    /\ ~sreq.allowNotFound
    /\ sreq.result.outcome = "throws"
    /\ sreq.result.status = 404
    /\ Len(sreq.response.body) = 501
    /\ Len(sreq.result.detail) = 500
    /\ idx["ai"].items # <<>>

----------------------------------------------------------------------------
(* C26: canonical object names.  For every object name handed to           *)
(* signedRequest, the name that is signed and the name that is requested   *)
(* have no slash in front, and when the canonical name is empty nothing is *)
(* signed or sent and an error is thrown; this holds as well for names     *)
(* with white space before the slashes.                                    *)

\* the name within the signed resource "/<bucket>/<name>"
SignedName == Drop(sreq.result.resource, Len(loadOssConfig.bucketName) + 2)

C26_NoLeadingSlashIsSigned ==
    sreq.pc = "done" =>
        /\ sreq.result.sent =>
               /\ SignedName # <<>>
               /\ Head(SignedName) # 47
               /\ sreq.result.key # <<>>
        /\ canonicalObjectName(sreq.objectName) = <<>> =>
               ~sreq.result.sent /\ sreq.result.outcome = "throws"

----------------------------------------------------------------------------
(* C27: the local scan keeps one copy.  The scan reads the outputs         *)
(* directory of the project before the shared one of the temp directory;   *)
(* when the same file name is in both, exactly one summary is made for it, *)
(* from the copy of the project, and the content getReportBySlug returns   *)
(* for that file is of the same directory.                                 *)

\* the file name is in both directories, as a file or as a link to one
InBothDirs(n) ==
    \A d \in {1, 2} :
        dirs[d].present /\ n \in DOMAIN dirs[d].files /\ dirs[d].files[n].kind # "dir"

\* the summary is the one of the text
BuiltFrom(meta, text) ==
    /\ meta.title = localTitle(text, meta.fileName)
    /\ meta.excerpt = buildExcerpt(text)
    /\ meta.itemCount = extractItemCount(text)
    /\ meta.themeCount = extractThemeCount(text)

\* getReportBySlug has returned a report it found through the directories
FoundInDirs ==
    /\ call.op = "getReportBySlug"
    /\ call.status = "ok"
    /\ call.detail.found
    /\ call.detail.meta.channel \in call.localReads

C27_OneSummaryOfTheFirstCopy ==
    /\ ListedFromDirs =>
           \A n \in {m \in ScannedNames : InBothDirs(m)} :
               /\ Cardinality({i \in 1..Len(call.items) : call.items[i].fileName = n}) =
                      (IF isReportLikeMarkdown(n) /\ matchChannelFileName(n, call.channel)
                       THEN 1 ELSE 0)
               /\ \A i \in 1..Len(call.items) :
                      call.items[i].fileName = n =>
                          BuiltFrom(call.items[i], dirs[1].files[n].text)
    /\ (FoundInDirs /\ InBothDirs(call.detail.meta.fileName)) =>
           /\ BuiltFrom(call.detail.meta, dirs[1].files[call.detail.meta.fileName].text)
           /\ call.detail.content = dirs[1].files[call.detail.meta.fileName].text


----------------------------------------------------------------------------
(* C28: the listing is always available.  getAllReports never throws to    *)
(* its caller; an output directory that is missing counts as no entries,   *)
(* for that directory only; and any other failure of a read (a report file *)
(* that is gone or unreadable between the scan of the directory and the    *)
(* read of its text included) gives a partial or empty list, not an error. *)

\* the report files of channel that directory d holds
ReportsOfDir(d, channel) ==
    IF ~dirs[d].present THEN {}
    ELSE {n \in DOMAIN dirs[d].files :
              /\ dirs[d].files[n].kind = "file"
              /\ isReportLikeMarkdown(n)
              /\ matchChannelFileName(n, channel)}

C28_ListingNeverRaises ==
    call.op = "getAllReports" =>
        /\ call.status = "ok"
        /\ call.localReads # {} =>
               /\ {call.items[i].fileName : i \in 1..Len(call.items)} \subseteq
                      ReportsOfDir(1, call.channel) \cup ReportsOfDir(2, call.channel)
               /\ \A d \in {1, 2} :
                      ~dirs[d].present =>
                          \A n \in ReportsOfDir(3 - d, call.channel) :
                              dirs[3 - d].files[n].readable =>
                                  \E i \in 1..Len(call.items) : call.items[i].fileName = n

----------------------------------------------------------------------------
(* C29: a remote deletion that fails changes nothing further.  When the    *)
(* read of the index or the DELETE of the object fails in deleteFromOss,   *)
(* the index is not rewritten and no local artifact is removed; and on the *)
(* route over the script, when the script ends with a code other than 0 or *)
(* is killed after 120 seconds, no local artifact is removed and the       *)
(* answer is ok: false.                                                    *)

\* the request failed at the read of the index, at the DELETE of the object
\* or at the script
FailedRemotely == del.failed \in {"GET index", "DELETE object", "script"}

C29_FailedDeletionChangesNothing ==
    /\ [](FailedRemotely =>
              /\ del.pc = "respond"
              /\ del.status = 500
              /\ "PUT index" \notin del.requests
              /\ del.removed = {})
    /\ [][(FailedRemotely \/ FailedRemotely') => (idx' = idx /\ dirs' = dirs)]_vars

\* the DELETE of the object of a report failed after the index was read:
\* the answer is 500, the index lists the report and outputs/ holds its file
C29_Witness ==
    /\ del.route = "bucket"
    /\ del.failed = "DELETE object"
    /\ "GET index" \in del.requests
    /\ del.fileName = NameAi03
    /\ del.status = 500
    /\ Lists(idx["ai"].items, NameAi03)
    /\ NameAi03 \in DOMAIN dirs[1].files
    /\ ObjectNameOf("ai", NameAi03) \in objects

----------------------------------------------------------------------------
(* C30: canonical identifiers.  Every identifier that getReportBySlug or   *)
(* decodeSlug of the DELETE route accepts is the one toSlug gives for the  *)
(* file name it decodes to, so that no two identifiers lead to the same    *)
(* file name; and an identifier whose bytes are no valid text, or that     *)
(* holds a character outside the URL-safe alphabet, is rejected.           *)

\* A-Z, a-z, 0-9, '-' and '_'
InUrlSafeAlphabet(c) ==
    \/ c >= 65 /\ c <= 90
    \/ c >= 97 /\ c <= 122
    \/ c >= 48 /\ c <= 57
    \/ c = 45
    \/ c = 95

\* the bytes are the UTF-8 form of the text they decode to
IsValidText(bytes) == Utf8Encode(Utf8Decode(bytes)) = bytes

C30_AcceptedIsCanonical ==
    /\ cPc \in {"valid", "searched"} => toSlug(cBack) = cSlug
    /\ (/\ cPc \in {"valid", "invalid", "searched", "null"}
        /\ \/ \E i \in 1..Len(cSlug) : ~InUrlSafeAlphabet(cSlug[i])
           \/ ~IsValidText(Base64UrlDecode(cSlug)))
           => cPc \in {"invalid", "null"}

====
